---- MODULE Spec2Model ----
(***************************************************************************)
(* Model of the metric-batching pipeline of the Stackdriver stats exporter:*)
(*   - combineTimeSeriesToCreateTimeSeriesRequest (stats.go), the          *)
(*     deduplicating request splitter, with metricSignature;               *)
(*   - metricsBatcher and its workers (metrics_batcher.go);                *)
(*   - the metric-descriptor cache of statsExporter                        *)
(*     (createMetricDescriptorFromView / createMetricDescriptorFromMetric).*)
(* Go strings are sequences of byte values, so that formatting, joining    *)
(* and sorting are computed as the code computes them.                     *)
(***************************************************************************)
EXTENDS Integers, Sequences, FiniteSets, TLC

VARIABLES
  \* ---- combineTimeSeriesToCreateTimeSeriesRequest, called on one input ----
  ts,            \* the argument: a list of time series
  ctsreql,       \* the returned list of CreateTimeSeriesRequests
  combinePc,     \* "call" before the call, "done" after it returned
  \* ---- one metricsBatcher, its workers and the backend behind them ----
  numWorkers,    \* the numWorkers argument of newMetricsBatcher
  mc,            \* the MetricClient argument: "client", or "nil" as in unit tests
  workload,      \* which metrics the submitted series carry
  batchCap,      \* the batch size (maxTimeSeriesPerUpload in the program)
  failures,      \* number of create calls the backend has failed so far
  mb,            \* metricsBatcher: allTss, allErrs, droppedTimeSeries
  reqsChan,      \* chan *CreateTimeSeriesRequest: buf, closed
  respsChan,     \* chan *response: buf, closed
  wg,            \* the WaitGroup counter
  workers,       \* per worker: pc, the request being sent, resp
  mbPc,          \* where the goroutine that owns the batcher is
  drainI,        \* the loop index i of close
  closeErr,      \* the error returned by close
  toSubmit,      \* number of series the caller adds before it calls close
  submitted,     \* number of addTimeSeries calls made so far
  handed,        \* the requests handed to reqsChan, in order
  sent,          \* per handed request, the sendReq calls made for it
  \* ---- the metric descriptors of one statsExporter ----
  skipCMD,           \* Options.SkipCMD
  getMetricType,     \* Options.GetMetricType
  metricDescriptors, \* the keys of the map metricDescriptors
  metricMu,          \* the goroutine that holds the mutex, 0 if none
  goroutines,        \* per goroutine: pc, the descriptor it registers, the result
  regCalls,          \* number of registration calls made so far
  remoteCreates,     \* per name, the remote create calls started
  remoteFailed,      \* per name, the remote create calls that failed
  returned,          \* per name, the registration calls that returned
  \* ---- droppedTimeSeriesFromMonitoringAPIError, called on one error ----
  apiReq,        \* the request that was sent
  apiErr,        \* the error of the backend, with the index lists its message is made of
  apiDropped,    \* the returned count, as a list that is empty before the call
  \* ---- the conversion of one distribution point ----
  distPoint,     \* the distribution: which conversion, bounds, bucket counts
  distValue,     \* the converted value, as a list that is empty before the call
  \* ---- uploadMetrics and makeReq ----
  uploadOp,      \* the operation under way: "uploadMetrics" or "makeReq"
  metrics,       \* uploadMetrics: the metrics argument
  vds,           \* makeReq: the view data argument
  limit,         \* makeReq: the limit argument
  uploadPc,      \* the position of the call
  metricI,       \* uploadMetrics: the metrics the registration loop has passed
  uploadErrors,  \* uploadMetrics: the slice errors, collected so far
  allTimeSeries, \* uploadMetrics: the converted series
  pending,       \* uploadMetrics: the create calls the batch loop has yet to make
  issued,        \* history: the create calls made in this cycle, with their results
  uploadErr,     \* what uploadMetrics returned: <<>> before it returns, then <<err>>
  cycle,         \* the number of the export cycle, from 1
  regFailed,     \* history: the metrics whose registration failed in this cycle
  uploadFailures, \* history: the remote calls that failed
  makeReqRet,    \* what makeReq returned: <<>> before it returns, then <<requests>>
  \* ---- sendReq, called on one request ----
  sendReqArg,    \* the request passed to sendReq
  backendErrs,   \* what the backend answers: to createTimeSeries, to createServiceTimeSeries
  sendReqRet,    \* what sendReq did and returned, as a list that is empty before the call
  \* ---- the contexts of the outbound calls of one export ----
  exportPath,    \* which export runs: "uploadStats", "uploadMetrics" or "worker"
  callerCtx,     \* the context the caller supplied, NilCtx if none
  optTimeout,    \* Options.Timeout
  mbTimeout,     \* the timeout argument of newMetricsBatcher
  exportPc,      \* the position of the export
  exportCtx,     \* the ctx of the export function, or the ctx field of the workers
  callPlan,      \* per goroutine, the outbound calls it has yet to make
  inFlight,      \* per goroutine, the outbound call in flight with its context
  ctxDone,       \* the contexts that were cancelled or whose deadline passed
  ctxCount,      \* number of contexts derived so far
  observed       \* history: the calls that returned, with whether their context was done

combineVars == <<ts, ctsreql, combinePc>>

\* the arguments of newMetricsBatcher and what the caller submits
batcherInputs == <<numWorkers, mc, workload, batchCap, toSubmit>>

batcherVars == <<numWorkers, mc, workload, batchCap, failures, mb, reqsChan, respsChan, wg, workers,
                 mbPc, drainI, closeErr, toSubmit, submitted, handed, sent>>

descVars == <<skipCMD, getMetricType, metricDescriptors, metricMu, goroutines, regCalls,
              remoteCreates, remoteFailed, returned>>

parseVars == <<apiReq, apiErr, apiDropped>>

distVars == <<distPoint, distValue>>

uploadVars == <<uploadOp, metrics, vds, limit, uploadPc, metricI, uploadErrors,
                allTimeSeries, pending, issued, uploadErr, cycle, regFailed,
                uploadFailures, makeReqRet>>

sendVars == <<sendReqArg, backendErrs, sendReqRet>>

ctxVars == <<exportPath, callerCtx, optTimeout, mbTimeout, exportPc, exportCtx, callPlan, inFlight, ctxDone, ctxCount, observed>>

\* what the actions of one part leave alone: the variables of the other parts
nonCombineVars == <<batcherVars, descVars, parseVars, distVars, uploadVars, sendVars, ctxVars>>
nonBatcherVars == <<combineVars, descVars, parseVars, distVars, uploadVars, sendVars, ctxVars>>
nonDescVars == <<combineVars, batcherVars, parseVars, distVars, uploadVars, sendVars, ctxVars>>
nonParseVars == <<combineVars, batcherVars, descVars, distVars, uploadVars, sendVars, ctxVars>>
nonDistVars == <<combineVars, batcherVars, descVars, parseVars, uploadVars, sendVars, ctxVars>>

nonUploadVars == <<combineVars, batcherVars, descVars, parseVars, distVars, sendVars, ctxVars>>

nonSendVars == <<combineVars, batcherVars, descVars, parseVars, distVars, uploadVars, ctxVars>>

nonCtxVars == <<combineVars, batcherVars, descVars, parseVars, distVars, uploadVars, sendVars>>

vars == <<ts, ctsreql, combinePc,
          numWorkers, mc, workload, batchCap, failures, mb, reqsChan, respsChan, wg, workers,
          mbPc, drainI, closeErr, toSubmit, submitted, handed, sent,
          skipCMD, getMetricType, metricDescriptors, metricMu, goroutines, regCalls,
          remoteCreates, remoteFailed, returned,
          apiReq, apiErr, apiDropped,
          distPoint, distValue,
          uploadOp, metrics, vds, limit, uploadPc, metricI, uploadErrors,
          allTimeSeries, pending, issued, uploadErr, cycle, regFailed,
          uploadFailures, makeReqRet,
          sendReqArg, backendErrs, sendReqRet,
          exportPath, callerCtx, optTimeout, mbTimeout, exportPc, exportCtx, callPlan, inFlight, ctxDone, ctxCount, observed>>

-----------------------------------------------------------------------------
(* Bounds of the model *)

\* longest list of time series handed to the splitter
MaxLen == 5
\* largest numWorkers a metricsBatcher is created with
MaxWorkers == 2
\* largest number of series submitted to a metricsBatcher whose batch size is
\* scaled down
MaxSeries == 7
\* largest scaled-down batch size
MaxBatchCap == 2
\* largest number of series submitted to a metricsBatcher of the program's
\* batch size
MaxSeriesFullCap == 401
\* largest number of create calls the backend fails
MaxFailures == 2
\* number of goroutines that register descriptors on one exporter
MaxGoroutines == 2
\* largest number of registration calls made on one exporter
MaxRegCalls == 4
\* largest number of index-or-range tokens in the message of a backend error
MaxTokens == 3
\* largest number of bucket boundaries of a distribution
MaxBounds == 3

-----------------------------------------------------------------------------
(* Constants of the program *)

maxTimeSeriesPerUpload == 200
minNumWorkers == 1
minReqsChanSize == 5

\* error values: the nil error
Nil == [kind |-> "nil"]

-----------------------------------------------------------------------------
(* The parts of the state a specification does not use stay as they are here *)

CombineUnused ==
  /\ ts = <<>>
  /\ ctsreql = <<>>
  /\ combinePc = "unused"

BatcherUnused ==
  /\ numWorkers = 0
  /\ mc = "nil"
  /\ workload = "unused"
  /\ batchCap = 0
  /\ failures = 0
  /\ mb = [allTss |-> <<>>, allErrs |-> <<>>, droppedTimeSeries |-> 0]
  /\ reqsChan = [buf |-> <<>>, closed |-> FALSE]
  /\ respsChan = [buf |-> <<>>, closed |-> FALSE]
  /\ wg = 0
  /\ workers = <<>>
  /\ mbPc = "unused"
  /\ drainI = 0
  /\ closeErr = Nil
  /\ toSubmit = 0
  /\ submitted = 0
  /\ handed = <<>>
  /\ sent = <<>>

-----------------------------------------------------------------------------
(* Go strings as byte sequences *)

\* "a/b"
TypeAB == <<97, 47, 98>>
\* "x/y"
TypeXY == <<120, 47, 121>>
\* "v1"
ValV1 == <<118, 49>>
\* "v2"
ValV2 == <<118, 50>>
\* "projects/"
ProjectsPrefix == <<112, 114, 111, 106, 101, 99, 116, 115, 47>>
\* the exporter's Options.ProjectID, "p"
ProjectID == <<112>>

\* strings.HasPrefix
HasPrefix(s, prefix) ==
  /\ Len(prefix) <= Len(s)
  /\ SubSeq(s, 1, Len(prefix)) = prefix

\* byte-wise lexicographic order of Go strings, a <= b
RECURSIVE StrLeq(_, _)
StrLeq(a, b) ==
  IF a = <<>> THEN TRUE
  ELSE IF b = <<>> THEN FALSE
  ELSE IF a[1] < b[1] THEN TRUE
  ELSE IF a[1] > b[1] THEN FALSE
  ELSE StrLeq(Tail(a), Tail(b))

\* strings.Join(elems, sep)
RECURSIVE Join(_, _)
Join(elems, sep) ==
  IF elems = <<>> THEN <<>>
  ELSE IF Len(elems) = 1 THEN elems[1]
  ELSE elems[1] \o sep \o Join(Tail(elems), sep)

\* the values of a label map, collected and sorted by sort.Strings
RECURSIVE SortedLabelValues(_, _)
SortedLabelValues(labels, keys) ==
  IF keys = {} THEN <<>>
  ELSE LET k == CHOOSE k \in keys : \A j \in keys : StrLeq(labels[k], labels[j])
       IN  <<labels[k]>> \o SortedLabelValues(labels, keys \ {k})

DescUnused ==
  /\ skipCMD = FALSE
  /\ getMetricType = "nil"
  /\ metricDescriptors = {}
  /\ metricMu = 0
  /\ goroutines = <<>>
  /\ regCalls = 0
  /\ remoteCreates = <<>>
  /\ remoteFailed = <<>>
  /\ returned = <<>>

ParseUnused ==
  /\ apiReq = Nil
  /\ apiErr = Nil
  /\ apiDropped = <<>>

DistUnused ==
  /\ distPoint = Nil
  /\ distValue = <<>>

UploadUnused ==
  /\ uploadOp = "none"
  /\ metrics = <<>>
  /\ vds = <<>>
  /\ limit = 0
  /\ uploadPc = "none"
  /\ metricI = 0
  /\ uploadErrors = <<>>
  /\ allTimeSeries = <<>>
  /\ pending = <<>>
  /\ issued = <<>>
  /\ uploadErr = <<>>
  /\ cycle = 0
  /\ regFailed = {}
  /\ uploadFailures = 0
  /\ makeReqRet = <<>>

SendUnused ==
  /\ sendReqArg = Nil
  /\ backendErrs = <<>>
  /\ sendReqRet = <<>>

CtxUnused ==
  /\ exportPath = "none"
  /\ callerCtx = <<>>
  /\ optTimeout = 0
  /\ mbTimeout = 0
  /\ exportPc = "none"
  /\ exportCtx = <<>>
  /\ callPlan = <<>>
  /\ inFlight = <<>>
  /\ ctxDone = {}
  /\ ctxCount = 0
  /\ observed = <<>>

-----------------------------------------------------------------------------
(* metricSignature and combineTimeSeriesToCreateTimeSeriesRequest *)

\* fmt.Sprintf("%s:%s", type, strings.Join(sortedLabelValues, ","))
metricSignature(metric) ==
  metric.type \o <<58>>
    \o Join(SortedLabelValues(metric.labels, DOMAIN metric.labels), <<44>>)

\* the request the splitter builds around a list of series
NewRequest(series) ==
  [Name |-> ProjectsPrefix \o ProjectID, TimeSeries |-> series]

\* the loop with the bookkeeping of seenMetrics forgotten: every series counts
\* as a first occurrence
RECURSIVE PartitionForgettingSeen(_, _, _, _, _)
PartitionForgettingSeen(series, i, uniqueTimeSeries, nonUniqueTimeSeries, seenMetrics) ==
  IF i > Len(series)
  THEN [unique |-> uniqueTimeSeries, nonUnique |-> nonUniqueTimeSeries]
  ELSE PartitionForgettingSeen(series, i + 1,
         Append(uniqueTimeSeries, series[i]), nonUniqueTimeSeries, seenMetrics)

\* the loop over ts from the i-th series on, seenMetrics holding the signatures
\* seen so far: a series whose signature is neither in seenMetrics nor that of
\* a series between i and itself is appended to uniqueTimeSeries, any other to
\* nonUniqueTimeSeries, each in the order of ts
PartitionBySignature(series, i, uniqueTimeSeries, nonUniqueTimeSeries, seenMetrics) ==
  LET keys == [j \in 1..Len(series) |-> metricSignature(series[j].metric)]
      rest == [j \in 1..(Len(series) + 1 - i) |-> i + j - 1]
      seen(j) == keys[j] \in seenMetrics \/ \E k \in i..(j - 1) : keys[k] = keys[j]
      firsts == SelectSeq(rest, LAMBDA j : ~seen(j))
      others == SelectSeq(rest, LAMBDA j : seen(j))
  IN  [unique    |-> uniqueTimeSeries \o [k \in 1..Len(firsts) |-> series[firsts[k]]],
       nonUnique |-> nonUniqueTimeSeries \o [k \in 1..Len(others) |-> series[others[k]]]]

\* the splitter without the recursion: one request for each spilled series
combineOneRequestPerDuplicate(series) ==
  IF Len(series) = 0 THEN <<>>
  ELSE LET p == PartitionBySignature(series, 1, <<>>, <<>>, {})
       IN  <<NewRequest(p.unique)>>
             \o [k \in 1..Len(p.nonUnique) |-> NewRequest(<<p.nonUnique[k]>>)]

RECURSIVE combineTimeSeriesToCreateTimeSeriesRequest(_)
combineTimeSeriesToCreateTimeSeriesRequest(series) ==
  IF Len(series) = 0 THEN <<>>
  ELSE LET p == PartitionBySignature(series, 1, <<>>, <<>>, {})
       IN  <<NewRequest(p.unique)>>
             \o combineTimeSeriesToCreateTimeSeriesRequest(p.nonUnique)

-----------------------------------------------------------------------------
(* Inputs of the splitter *)

\* metrics a series can carry: two share type and label values under different
\* keys, two differ only by label value, one has no label, one has two labels
Metrics ==
  { [type |-> TypeAB, labels |-> [k \in {"k1"} |-> ValV1]],
    [type |-> TypeAB, labels |-> [k \in {"k2"} |-> ValV1]],
    [type |-> TypeAB, labels |-> [k \in {"k1"} |-> ValV2]],
    [type |-> TypeXY, labels |-> [k \in {} |-> <<>>]],
    [type |-> TypeXY, labels |-> [k \in {"k1", "k2"} |->
                                    IF k = "k1" THEN ValV2 ELSE ValV1]] }

\* a list of series; the id stands for the series' points, which tell two
\* series with one metric apart
SeriesLists ==
  UNION { { [i \in 1..n |-> [metric |-> m[i], id |-> i]] : m \in [1..n -> Metrics] }
          : n \in 0..MaxLen }

InitCombine ==
  /\ ts \in SeriesLists
  /\ ctsreql = <<>>
  /\ combinePc = "call"
  /\ BatcherUnused
  /\ DescUnused
  /\ ParseUnused
  /\ DistUnused
  /\ UploadUnused
  /\ SendUnused
  /\ CtxUnused

\* one call of combineTimeSeriesToCreateTimeSeriesRequest(ts)
Combine ==
  /\ combinePc = "call"
  /\ ctsreql' = combineTimeSeriesToCreateTimeSeriesRequest(ts)
  /\ combinePc' = "done"
  /\ UNCHANGED <<ts, nonCombineVars>>

NextCombine == Combine

SpecCombine == InitCombine /\ [][NextCombine]_vars

-----------------------------------------------------------------------------
(* Properties of the splitter *)

SignatureOf(s) == metricSignature(s.metric)

\* how many of the first i series of the list share the signature of the i-th
OccurrenceIndex(series, i) ==
  Cardinality({j \in 1..i : SignatureOf(series[j]) = SignatureOf(series[i])})

\* the largest number of series of the list that share one signature
MaxMultiplicity(series) ==
  IF Len(series) = 0 THEN 0
  ELSE CHOOSE n \in 1..Len(series) :
         /\ \E i \in 1..Len(series) : OccurrenceIndex(series, i) = n
         /\ \A i \in 1..Len(series) : OccurrenceIndex(series, i) <= n

\* the series of the list that are the k-th occurrence of their signature,
\* in the order of the list (a series' id is its position in ts)
KthOccurrences(series, k) ==
  SelectSeq(series, LAMBDA s : OccurrenceIndex(series, s.id) = k)

\* C1: no request returned by combineTimeSeriesToCreateTimeSeriesRequest holds
\* two series with the same signature.
C1_NoDuplicateSignatureInRequest ==
  combinePc = "done" =>
    \A r \in 1..Len(ctsreql) :
      \A i, j \in 1..Len(ctsreql[r].TimeSeries) :
        i # j => SignatureOf(ctsreql[r].TimeSeries[i])
                   # SignatureOf(ctsreql[r].TimeSeries[j])

\* the splitter returned for an input in which one signature occurs three
\* times and another twice
C1_Witness ==
  /\ combinePc = "done"
  /\ \E i, j, k \in 1..Len(ts) :
       /\ i < j /\ j < k
       /\ SignatureOf(ts[i]) = SignatureOf(ts[j])
       /\ SignatureOf(ts[j]) = SignatureOf(ts[k])
  /\ Len(ctsreql) = 3
  /\ Len(ctsreql[2].TimeSeries) = 2

\* C2: the splitter returns exactly N requests, N the largest number of input
\* series sharing one signature (none for an empty input), and the k-th
\* request holds exactly the k-th occurrences of the signatures, in input
\* order; so every input series is in exactly one request.
C2_RequestsAreOccurrenceLevels ==
  combinePc = "done" =>
    /\ Len(ctsreql) = MaxMultiplicity(ts)
    /\ \A k \in 1..Len(ctsreql) :
         ctsreql[k].TimeSeries = KthOccurrences(ts, k)
    /\ \A i \in 1..Len(ts) :
         Cardinality({<<k, n>> \in (1..Len(ctsreql)) \X (1..Len(ts)) :
                        /\ n <= Len(ctsreql[k].TimeSeries)
                        /\ ctsreql[k].TimeSeries[n] = ts[i]}) = 1

\* the input has the signatures [A, A, B, A, C] and the splitter returned three
\* requests of sizes [3, 1, 1]
C2_Witness ==
  /\ combinePc = "done"
  /\ Len(ts) = 5
  /\ SignatureOf(ts[1]) = SignatureOf(ts[2])
  /\ SignatureOf(ts[1]) = SignatureOf(ts[4])
  /\ SignatureOf(ts[3]) # SignatureOf(ts[1])
  /\ SignatureOf(ts[5]) # SignatureOf(ts[1])
  /\ SignatureOf(ts[5]) # SignatureOf(ts[3])
  /\ Len(ctsreql) = 3
  /\ Len(ctsreql[1].TimeSeries) = 3
  /\ Len(ctsreql[2].TimeSeries) = 1
  /\ Len(ctsreql[3].TimeSeries) = 1

-----------------------------------------------------------------------------
(* metricSignature on two metrics *)

\* "v1,v2"
ValV1CommaV2 == ValV1 \o <<44>> \o ValV2

\* metrics whose label values or type hold the separators of the signature,
\* next to metrics with the same values apart: "v1,v2" as one value and "v1",
\* "v2" as two, under either key; "v1" once and twice; ":v1" under the type
\* "a/b" and "v1" under the type "a/b:"
SignatureMetrics ==
  Metrics \cup
  { [type |-> TypeAB, labels |-> [k \in {"k1"} |-> ValV1CommaV2]],
    [type |-> TypeAB, labels |-> [k \in {"k1", "k2"} |-> IF k = "k1" THEN ValV1 ELSE ValV2]],
    [type |-> TypeAB, labels |-> [k \in {"k1", "k2"} |-> IF k = "k1" THEN ValV2 ELSE ValV1]],
    [type |-> TypeAB, labels |-> [k \in {"k1", "k2"} |-> ValV1]],
    [type |-> TypeAB, labels |-> [k \in {"k1"} |-> <<58>> \o ValV1]],
    [type |-> TypeAB \o <<58>>, labels |-> [k \in {"k1"} |-> ValV1]] }

\* combineTimeSeriesToCreateTimeSeriesRequest is called on two series
InitSignature ==
  /\ ts \in { <<[metric |-> m1, id |-> 1], [metric |-> m2, id |-> 2]>> :
                m1 \in SignatureMetrics, m2 \in SignatureMetrics }
  /\ ctsreql = <<>>
  /\ combinePc = "call"
  /\ BatcherUnused
  /\ DescUnused
  /\ ParseUnused
  /\ DistUnused
  /\ UploadUnused
  /\ SendUnused
  /\ CtxUnused

SpecSignature == InitSignature /\ [][NextCombine]_vars

\* the label values of a metric with the number of keys that have each
LabelValueCounts(metric) ==
  [v \in { metric.labels[k] : k \in DOMAIN metric.labels } |->
     Cardinality({ k \in DOMAIN metric.labels : metric.labels[k] = v })]

\* C29 as stated: two metrics get the same signature, and so two series that
\* carry them go to different requests, exactly when they have the same type
\* and the same label values with the same multiplicities, whatever the keys.
C29_SameSignatureIffSameTypeAndValues ==
  combinePc = "done" =>
    /\ (metricSignature(ts[1].metric) = metricSignature(ts[2].metric))
         <=> /\ ts[1].metric.type = ts[2].metric.type
             /\ LabelValueCounts(ts[1].metric) = LabelValueCounts(ts[2].metric)
    /\ Len(ctsreql) = 2
         <=> /\ ts[1].metric.type = ts[2].metric.type
             /\ LabelValueCounts(ts[1].metric) = LabelValueCounts(ts[2].metric)

-----------------------------------------------------------------------------
(* Backend errors and droppedTimeSeriesFromMonitoringAPIError *)

\* "One or more TimeSeries could not be written:"
PartialErrPrefix ==
  <<79, 110, 101, 32, 111, 114, 32, 109, 111, 114, 101, 32, 84, 105, 109, 101,
    83, 101, 114, 105, 101, 115, 32, 99, 111, 117, 108, 100, 32, 110, 111, 116,
    32, 98, 101, 32, 119, 114, 105, 116, 116, 101, 110, 58>>
\* ": timeSeries[", the literal head of timeSeriesErrRegex
RegexHead == <<58, 32, 116, 105, 109, 101, 83, 101, 114, 105, 101, 115, 91>>
\* " Duplicate: timeSeries[0]"
MsgPartialTail ==
  <<32, 68, 117, 112, 108, 105, 99, 97, 116, 101, 58, 32, 116, 105, 109, 101, 83, 101, 114, 105, 101, 115, 91, 48, 93>>
\* the message of a partial failure: the first series was not written
MsgPartial == PartialErrPrefix \o MsgPartialTail
\* "rpc error: unavailable"
MsgUnavailable ==
  <<114, 112, 99, 32, 101, 114, 114, 111, 114, 58, 32, 117, 110, 97, 118, 97,
    105, 108, 97, 98, 108, 101>>

\* the kinds of error a create call of the backend returns
BackendErrKinds == {"unavailable", "partial"}

\* strconv.Itoa of a natural number
RECURSIVE Itoa(_)
Itoa(n) == IF n < 10 THEN <<48 + n>> ELSE Itoa(n \div 10) \o <<48 + (n % 10)>>

\* an index-or-range token as the backend writes it: "min" or "min-max"
TokenString(tok) ==
  IF tok.ranged THEN Itoa(tok.min) \o <<45>> \o Itoa(tok.max) ELSE Itoa(tok.min)

RECURSIVE TokenStrings(_)
TokenStrings(toks) ==
  IF toks = <<>> THEN <<>> ELSE <<TokenString(toks[1])>> \o TokenStrings(Tail(toks))

\* " Field timeSeries[9] had an invalid value", the text before an index list
FieldText ==
  <<32, 70, 105, 101, 108, 100, 32, 116, 105, 109, 101, 83, 101, 114, 105, 101,
    115, 91, 57, 93, 32, 104, 97, 100, 32, 97, 110, 32, 105, 110, 118, 97, 108,
    105, 100, 32, 118, 97, 108, 117, 101>>

\* the text of the index lists of a message: each list as ": timeSeries[...]"
\* after the text about the field
RECURSIVE IndexListsText(_)
IndexListsText(lists) ==
  IF lists = <<>> THEN <<>>
  ELSE FieldText \o RegexHead \o Join(TokenStrings(lists[1]), <<44>>) \o <<93>>
         \o IndexListsText(Tail(lists))

\* err.Error(): the message of an error value
Error(err) ==
  CASE err.kind = "unavailable" -> MsgUnavailable
    [] err.kind = "partial"     -> MsgPartial
    [] err.kind = "joined"      -> err.msg
    [] err.kind = "api"         -> err.prefix \o IndexListsText(err.lists) \o err.tail
    [] err.kind = "createFailed" -> MsgUnavailable

IsDigit(c) == c \in 48..57

\* the end of the run of digits of s that starts at i (i itself if none)
RECURSIVE DigitsEnd(_, _)
DigitsEnd(s, i) ==
  IF i <= Len(s) /\ IsDigit(s[i]) THEN DigitsEnd(s, i + 1) ELSE i

\* [0-9]+(?:-[0-9]+)? at i: the position after the match, 0 if none
RangeEnd(s, i) ==
  LET d == DigitsEnd(s, i)
  IN  IF d = i THEN 0
      ELSE IF d <= Len(s) /\ s[d] = 45 /\ DigitsEnd(s, d + 1) > d + 1
           THEN DigitsEnd(s, d + 1)
           ELSE d

\* a range followed by (?:,range)* at i: the position after the match, 0 if none
RECURSIVE RangeListEnd(_, _)
RangeListEnd(s, i) ==
  LET r == RangeEnd(s, i)
  IN  IF r = 0 THEN 0
      ELSE IF r <= Len(s) /\ s[r] = 44 /\ RangeListEnd(s, r + 1) # 0
           THEN RangeListEnd(s, r + 1)
           ELSE r

\* timeSeriesErrRegex at i: the position of the closing bracket, 0 if no match
RegexMatchEnd(s, i) ==
  IF /\ s[i] = RegexHead[1]
     /\ i + Len(RegexHead) - 1 <= Len(s)
     /\ SubSeq(s, i, i + Len(RegexHead) - 1) = RegexHead
  THEN LET e == RangeListEnd(s, i + Len(RegexHead))
       IN  IF e # 0 /\ e <= Len(s) /\ s[e] = 93 THEN e ELSE 0
  ELSE 0

\* timeSeriesErrRegex.FindAllStringSubmatch(s, -1), from position i on: the
\* submatches (whole match, group 1) of the successive matches, each the
\* leftmost match that starts after the end of the one before
RECURSIVE FindAllStringSubmatch(_, _)
FindAllStringSubmatch(s, i) ==
  LET starts == {k \in i..Len(s) : RegexMatchEnd(s, k) # 0}
  IN  IF starts = {} THEN <<>>
      ELSE LET k == CHOOSE k \in starts : \A m \in starts : k <= m
               e == RegexMatchEnd(s, k)
           IN  << <<SubSeq(s, k, e), SubSeq(s, k + Len(RegexHead), e - 1)>> >>
                 \o FindAllStringSubmatch(s, e + 1)

\* strings.Split(s, sep) for a one-byte separator
RECURSIVE Split(_, _)
Split(s, sep) ==
  IF \E i \in 1..Len(s) : s[i] = sep
  THEN LET i == CHOOSE i \in 1..Len(s) :
                  s[i] = sep /\ \A j \in 1..(i - 1) : s[j] # sep
       IN  <<SubSeq(s, 1, i - 1)>> \o Split(SubSeq(s, i + 1, Len(s)), sep)
  ELSE <<s>>

\* strconv.Atoi of a string of digits
RECURSIVE Atoi(_)
Atoi(s) ==
  IF s = <<>> THEN 0
  ELSE 10 * Atoi(SubSeq(s, 1, Len(s) - 1)) + (s[Len(s)] - 48)

\* the size of a range without the + 1
RangeSizeOneShort(rng) ==
  LET rngSlice == Split(rng, 45)
      min == Atoi(rngSlice[1])
      max == IF Len(rngSlice) > 1 THEN Atoi(rngSlice[2]) ELSE min
  IN  max - min

\* max - min + 1 of one "min" or "min-max" token
RangeSize(rng) ==
  LET rngSlice == Split(rng, 45)
      min == Atoi(rngSlice[1])
      max == IF Len(rngSlice) > 1 THEN Atoi(rngSlice[2]) ELSE min
  IN  max - min + 1

RECURSIVE SumRangeSizes(_)
SumRangeSizes(rngs) ==
  IF rngs = <<>> THEN 0 ELSE RangeSize(rngs[1]) + SumRangeSizes(Tail(rngs))

\* the loop over the matches; submatches[2] is the one capture group
RECURSIVE SumMatches(_)
SumMatches(matches) ==
  IF matches = <<>> THEN 0
  ELSE SumRangeSizes(Split(matches[1][2], 44)) + SumMatches(Tail(matches))

droppedTimeSeriesFromMonitoringAPIError(req, monitoringAPIerr) ==
  LET droppedTimeSeriesRangeMatches ==
        FindAllStringSubmatch(Error(monitoringAPIerr), 1)
  IN  IF ~HasPrefix(Error(monitoringAPIerr), PartialErrPrefix)
           \/ Len(droppedTimeSeriesRangeMatches) = 0
      THEN Len(req.TimeSeries)
      ELSE SumMatches(droppedTimeSeriesRangeMatches)

-----------------------------------------------------------------------------
(* sendReq: the split by endpoint and the two create calls *)

\* "kubernetes.io/"
KubernetesPrefix ==
  <<107, 117, 98, 101, 114, 110, 101, 116, 101, 115, 46, 105, 111, 47>>
knownServiceMetricPrefixes == {KubernetesPrefix}

\* "kubernetes.io/a", a service metric type
TypeK8s == KubernetesPrefix \o <<97>>

\* "kubernetes.io", the service prefix without its slash
TypeK8sNoSlash == SubSeq(KubernetesPrefix, 1, Len(KubernetesPrefix) - 1)
\* "x/kubernetes.io/a", the service prefix after something else
TypeK8sInside == <<120, 47>> \o TypeK8s

\* a test for the prefix anywhere in the metric type
serviceMetricAnywhere(metricType) ==
  \E knownServiceMetricPrefix \in knownServiceMetricPrefixes :
    \E i \in 0..(Len(metricType) - Len(knownServiceMetricPrefix)) :
      SubSeq(metricType, i + 1, i + Len(knownServiceMetricPrefix))
        = knownServiceMetricPrefix

serviceMetric(metricType) ==
  \E knownServiceMetricPrefix \in knownServiceMetricPrefixes :
    HasPrefix(metricType, knownServiceMetricPrefix)

\* the metrics the series submitted to a batcher carry: all of a custom type, or
\* every second one of a service type
Workloads == {"custom", "mixed"}
\* the metrics of the series of a request passed to sendReq directly: those, or
\* in turn a custom type, a service type, the service prefix without its slash
\* and the service prefix after something else
SendWorkloads == Workloads \cup {"prefixes"}

\* the time series behind the pointer with the given id (ids count the
\* submissions from 1)
SeriesAt(id) ==
  [id |-> id,
   metric |-> [type |-> CASE workload = "mixed" /\ id % 2 = 0    -> TypeK8s
                          [] workload = "prefixes" /\ id % 4 = 2 -> TypeK8s
                          [] workload = "prefixes" /\ id % 4 = 3 -> TypeK8sNoSlash
                          [] workload = "prefixes" /\ id % 4 = 0 -> TypeK8sInside
                          [] OTHER                               -> TypeAB,
               labels |-> [k \in {} |-> <<>>]]]

\* splitTimeSeries: the service series and the others, each in order; Deref
\* follows an element of the list to the series it points to
splitTimeSeriesOf(timeSeries, Deref(_)) ==
  [serviceTs    |-> SelectSeq(timeSeries,
                      LAMBDA t : serviceMetric(Deref(t).metric.type)),
   nonServiceTs |-> SelectSeq(timeSeries,
                      LAMBDA t : ~serviceMetric(Deref(t).metric.type))]

\* splitTimeSeries on the series a batcher was given, which are held by id
splitTimeSeries(timeSeries) == splitTimeSeriesOf(timeSeries, SeriesAt)

\* a nil *CreateTimeSeriesRequest
NilReq == [isNil |-> TRUE]

\* splitCreateTimeSeriesRequest: a clone of req around each non-empty part
splitCreateTimeSeriesRequest(req) ==
  LET parts == splitTimeSeries(req.TimeSeries)
  IN  [serviceReq    |-> IF Len(parts.serviceTs) > 0
                         THEN [req EXCEPT !.TimeSeries = parts.serviceTs]
                         ELSE NilReq,
       nonServiceReq |-> IF Len(parts.nonServiceTs) > 0
                         THEN [req EXCEPT !.TimeSeries = parts.nonServiceTs]
                         ELSE NilReq]

\* sendReq(ctx, c, req), the backend answering errNonService to createTimeSeries
\* and errService to createServiceTimeSeries (Nil for success): the dropped
\* count, the errors and the calls made
sendReq(c, req, errNonService, errService) ==
  IF c = "nil" THEN [dropped |-> 0, errors |-> <<>>, calls |-> <<>>]
  ELSE
    LET split == splitCreateTimeSeriesRequest(req)
        nonCalled == split.nonServiceReq # NilReq
        svcCalled == split.serviceReq # NilReq
        nonFailed == nonCalled /\ errNonService # Nil
        svcFailed == svcCalled /\ errService # Nil
    IN  [dropped |->
           (IF nonFailed
            THEN droppedTimeSeriesFromMonitoringAPIError(split.nonServiceReq, errNonService)
            ELSE 0)
           + (IF svcFailed
              THEN droppedTimeSeriesFromMonitoringAPIError(split.serviceReq, errService)
              ELSE 0),
         errors |->
           (IF nonFailed THEN <<errNonService>> ELSE <<>>)
           \o (IF svcFailed THEN <<errService>> ELSE <<>>),
         calls |->
           (IF nonCalled
            THEN <<[endpoint |-> "createTimeSeries", req |-> split.nonServiceReq]>>
            ELSE <<>>)
           \o (IF svcCalled
               THEN <<[endpoint |-> "createServiceTimeSeries", req |-> split.serviceReq]>>
               ELSE <<>>)]

-----------------------------------------------------------------------------
(* metricsBatcher and its workers *)

\* a number of workers that is not floored
WorkerCountUnfloored == numWorkers

\* newMetricsBatcher: the number of workers, floored at minNumWorkers
WorkerCount == IF numWorkers < minNumWorkers THEN minNumWorkers ELSE numWorkers
\* newMetricsBatcher: the capacity of reqsChan
reqsChanSize == IF WorkerCount < minReqsChanSize THEN minReqsChanSize ELSE WorkerCount
\* a respsChan one slot too small for the workers
respsChanOneShort == WorkerCount - 1

\* newMetricsBatcher: the capacity of respsChan
respsChanSize == WorkerCount

\* newWorker: a worker with an empty response, about to run start()
newWorker ==
  [pc |-> "recv", req |-> NilReq, resp |-> [droppedTimeSeries |-> 0, errs |-> <<>>]]

\* how many series a caller submits: none, one, a number at one from a
\* multiple of the batch size, or the most the model allows
SubmitCountsFullCap ==
  {k \in 0..MaxSeriesFullCap :
     \/ k = MaxSeriesFullCap
     \/ k % maxTimeSeriesPerUpload \in {0, 1, maxTimeSeriesPerUpload - 1}}

\* the state newMetricsBatcher leaves: the channels made, the WaitGroup
\* counting the workers, every worker started
NewMetricsBatcher ==
  /\ mb = [allTss |-> <<>>, allErrs |-> <<>>, droppedTimeSeries |-> 0]
  /\ reqsChan = [buf |-> <<>>, closed |-> FALSE]
  /\ respsChan = [buf |-> <<>>, closed |-> FALSE]
  /\ wg = WorkerCount
  /\ workers = [w \in 1..WorkerCount |-> newWorker]
  /\ mbPc = "open"
  /\ drainI = 0
  /\ closeErr = Nil
  /\ submitted = 0
  /\ handed = <<>>
  /\ sent = <<>>
  /\ failures = 0

\* a batcher whose batch size is scaled down, so that few series make many
\* requests and reqsChan fills up
InitBatcher ==
  /\ numWorkers \in 0..MaxWorkers
  /\ mc \in {"client", "nil"}
  /\ workload \in Workloads
  /\ batchCap \in 1..MaxBatchCap
  /\ toSubmit \in 0..MaxSeries
  /\ NewMetricsBatcher
  /\ CombineUnused
  /\ DescUnused
  /\ ParseUnused
  /\ DistUnused
  /\ UploadUnused
  /\ SendUnused
  /\ CtxUnused

\* a batcher with the batch size of the program
InitBatcherFullCap ==
  /\ numWorkers = minNumWorkers
  /\ mc = "client"
  /\ workload = "custom"
  /\ batchCap = maxTimeSeriesPerUpload
  /\ toSubmit \in SubmitCountsFullCap
  /\ NewMetricsBatcher
  /\ CombineUnused
  /\ DescUnused
  /\ ParseUnused
  /\ DistUnused
  /\ UploadUnused
  /\ SendUnused
  /\ CtxUnused

\* metricsBatcher.recordDroppedTimeseries: nil errors are not kept
RECURSIVE NonNilErrs(_)
NonNilErrs(errs) ==
  IF errs = <<>> THEN <<>>
  ELSE (IF errs[1] # Nil THEN <<errs[1]>> ELSE <<>>) \o NonNilErrs(Tail(errs))

\* recordDroppedTimeseries assigning the count instead of adding it
mbRecordOverwritingCount(batcher, numTimeSeries, errs) ==
  [batcher EXCEPT !.droppedTimeSeries = numTimeSeries,
                  !.allErrs = @ \o NonNilErrs(errs)]

mbRecordDroppedTimeseries(batcher, numTimeSeries, errs) ==
  [batcher EXCEPT !.droppedTimeSeries = @ + numTimeSeries,
                  !.allErrs = @ \o NonNilErrs(errs)]

\* worker.recordDroppedTimeseries
workerRecordDroppedTimeseries(resp, numTimeSeries, errors) ==
  [droppedTimeSeries |-> resp.droppedTimeSeries + numTimeSeries,
   errs |-> IF Len(errors) > 0 THEN resp.errs \o errors ELSE resp.errs]

\* addTimeSeries up to the channel send: the series is appended; a full
\* accumulator is to be sent to reqsChan
AddTimeSeries ==
  /\ mbPc = "open"
  /\ submitted < toSubmit
  /\ submitted' = submitted + 1
  /\ mb' = [mb EXCEPT !.allTss = Append(@, submitted + 1)]
  /\ mbPc' = IF Len(mb.allTss) + 1 = batchCap THEN "addSend" ELSE "open"
  /\ UNCHANGED <<batcherInputs, failures, reqsChan, respsChan, wg, workers,
                 drainI, closeErr, handed, sent, nonBatcherVars>>

\* sendReqToChan with addTimeSeries keeping the accumulator it has handed over
SendReqToChanKeepingAccumulator ==
  /\ mbPc \in {"addSend", "closeSend"}
  /\ Len(reqsChan.buf) < reqsChanSize
  /\ LET req == [Name |-> ProjectsPrefix \o ProjectID, TimeSeries |-> mb.allTss]
     IN  /\ reqsChan' = [reqsChan EXCEPT !.buf = Append(@, req)]
         /\ handed' = Append(handed, req)
         /\ sent' = Append(sent, <<>>)
  /\ mbPc' = IF mbPc = "addSend" THEN "open" ELSE "closeChan"
  /\ UNCHANGED <<batcherInputs, failures, mb, respsChan, wg, workers,
                 drainI, closeErr, submitted, nonBatcherVars>>

\* sendReqToChan: blocks while reqsChan is full; called by addTimeSeries, which
\* then starts a new accumulator, and by close
SendReqToChan ==
  /\ mbPc \in {"addSend", "closeSend"}
  /\ Len(reqsChan.buf) < reqsChanSize
  /\ LET req == [Name |-> ProjectsPrefix \o ProjectID, TimeSeries |-> mb.allTss]
     IN  /\ reqsChan' = [reqsChan EXCEPT !.buf = Append(@, req)]
         /\ handed' = Append(handed, req)
         /\ sent' = Append(sent, <<>>)
  /\ IF mbPc = "addSend"
     THEN mbPc' = "open" /\ mb' = [mb EXCEPT !.allTss = <<>>]
     ELSE mbPc' = "closeChan" /\ mb' = mb
  /\ UNCHANGED <<batcherInputs, failures, respsChan, wg, workers,
                 drainI, closeErr, submitted, nonBatcherVars>>

\* close is called: a non-empty accumulator is to be sent first
CloseCall ==
  /\ mbPc = "open"
  /\ submitted = toSubmit
  /\ mbPc' = IF Len(mb.allTss) > 0 THEN "closeSend" ELSE "closeChan"
  /\ UNCHANGED <<batcherInputs, failures, mb, reqsChan, respsChan, wg, workers,
                 drainI, closeErr, submitted, handed, sent, nonBatcherVars>>

\* close(mb.reqsChan)
CloseReqsChan ==
  /\ mbPc = "closeChan"
  /\ reqsChan' = [reqsChan EXCEPT !.closed = TRUE]
  /\ mbPc' = "wait"
  /\ UNCHANGED <<batcherInputs, failures, mb, respsChan, wg, workers,
                 drainI, closeErr, submitted, handed, sent, nonBatcherVars>>

\* a Wait that returns whatever the counter is
WgWaitNotWaiting ==
  /\ mbPc = "wait"
  /\ mbPc' = "drain"
  /\ drainI' = 0
  /\ UNCHANGED <<batcherInputs, failures, mb, reqsChan, respsChan, wg, workers,
                 closeErr, submitted, handed, sent, nonBatcherVars>>

\* mb.wg.Wait() returns once the counter is zero
WgWait ==
  /\ mbPc = "wait"
  /\ wg = 0
  /\ mbPc' = "drain"
  /\ drainI' = 0
  /\ UNCHANGED <<batcherInputs, failures, mb, reqsChan, respsChan, wg, workers,
                 closeErr, submitted, handed, sent, nonBatcherVars>>

\* one iteration of the loop of close: receive a response, record it
DrainResponse ==
  /\ mbPc = "drain"
  /\ drainI < Len(workers)
  /\ respsChan.buf # <<>>
  /\ LET resp == Head(respsChan.buf)
     IN  mb' = mbRecordDroppedTimeseries(mb, resp.droppedTimeSeries, resp.errs)
  /\ respsChan' = [respsChan EXCEPT !.buf = Tail(@)]
  /\ drainI' = drainI + 1
  /\ UNCHANGED <<batcherInputs, failures, reqsChan, wg, workers, mbPc,
                 closeErr, submitted, handed, sent, nonBatcherVars>>

\* the error close returns for the recorded errors
RECURSIVE ErrMsgs(_)
ErrMsgs(errs) ==
  IF errs = <<>> THEN <<>> ELSE <<Error(errs[1])>> \o ErrMsgs(Tail(errs))

\* the result of close without the case of a single error
CloseResultAlwaysJoined(allErrs) ==
  IF Len(allErrs) = 0 THEN Nil
  ELSE [kind |-> "joined", msg |-> <<91>> \o Join(ErrMsgs(allErrs), <<59, 32>>) \o <<93>>]

CloseResult(allErrs) ==
  IF Len(allErrs) = 0 THEN Nil
  ELSE IF Len(allErrs) = 1 THEN allErrs[1]
  ELSE [kind |-> "joined", msg |-> <<91>> \o Join(ErrMsgs(allErrs), <<59, 32>>) \o <<93>>]

\* the end of close: close(mb.respsChan) and the returned error
CloseReturn ==
  /\ mbPc = "drain"
  /\ drainI >= Len(workers)
  /\ respsChan' = [respsChan EXCEPT !.closed = TRUE]
  /\ closeErr' = CloseResult(mb.allErrs)
  /\ mbPc' = "closed"
  /\ UNCHANGED <<batcherInputs, failures, mb, reqsChan, wg, workers,
                 drainI, submitted, handed, sent, nonBatcherVars>>

\* which of the handed requests a request is
ReqIndex(req) == CHOOSE n \in 1..Len(handed) : handed[n] = req

\* the error value a failing create call returns: a new value at each call
BackendErr(kind, n, endpoint) ==
  IF kind = "nil" THEN Nil ELSE [kind |-> kind, req |-> n, endpoint |-> endpoint]

\* a receive that leaves the request in reqsChan
WorkerRecvLeavingRequest(w) ==
  /\ workers[w].pc = "recv"
  /\ reqsChan.buf # <<>>
  /\ workers' = [workers EXCEPT ![w].pc = "send", ![w].req = Head(reqsChan.buf)]
  /\ UNCHANGED <<batcherInputs, failures, mb, reqsChan, respsChan, wg, mbPc, drainI,
                 closeErr, submitted, handed, sent, nonBatcherVars>>

\* worker.start: the range loop receives the next request
WorkerRecv(w) ==
  /\ workers[w].pc = "recv"
  /\ reqsChan.buf # <<>>
  /\ workers' = [workers EXCEPT ![w].pc = "send", ![w].req = Head(reqsChan.buf)]
  /\ reqsChan' = [reqsChan EXCEPT !.buf = Tail(@)]
  /\ UNCHANGED <<batcherInputs, failures, mb, respsChan, wg, mbPc, drainI,
                 closeErr, submitted, handed, sent, nonBatcherVars>>

\* worker.sendReqWithTimeout: sendReq returns and its result is recorded
WorkerSend(w) ==
  /\ workers[w].pc = "send"
  /\ \E kn, ks \in BackendErrKinds \cup {"nil"} :
       \E n \in {ReqIndex(workers[w].req)} :
         \E res \in {sendReq(mc, workers[w].req,
                              BackendErr(kn, n, "createTimeSeries"),
                              BackendErr(ks, n, "createServiceTimeSeries"))} :
           /\ failures + Len(res.errors) <= MaxFailures
           /\ failures' = failures + Len(res.errors)
           /\ workers' = [workers EXCEPT
                 ![w].pc = "recv",
                 ![w].req = NilReq,
                 ![w].resp = workerRecordDroppedTimeseries(@, res.dropped, res.errors)]
           /\ sent' = [sent EXCEPT ![n] = Append(@,
                 [dropped |-> res.dropped, errors |-> res.errors,
                  endpoints |-> [c \in 1..Len(res.calls) |-> res.calls[c].endpoint]])]
  /\ UNCHANGED <<batcherInputs, mb, reqsChan, respsChan, wg, mbPc,
                 drainI, closeErr, submitted, handed, nonBatcherVars>>

\* worker.start: the range loop ends when reqsChan is closed and empty, and
\* the worker sends its response: w.respsChan <- w.resp, which blocks while
\* respsChan is full
WorkerReport(w) ==
  /\ workers[w].pc = "recv"
  /\ reqsChan.buf = <<>>
  /\ reqsChan.closed
  /\ Len(respsChan.buf) < respsChanSize
  /\ respsChan' = [respsChan EXCEPT !.buf = Append(@, workers[w].resp)]
  /\ workers' = [workers EXCEPT ![w].pc = "wgDone"]
  /\ UNCHANGED <<batcherInputs, failures, mb, reqsChan, wg, mbPc, drainI,
                 closeErr, submitted, handed, sent, nonBatcherVars>>

\* worker.start: w.wg.Done(), after which the goroutine ends
WorkerWgDone(w) ==
  /\ workers[w].pc = "wgDone"
  /\ wg' = wg - 1
  /\ workers' = [workers EXCEPT ![w].pc = "exited"]
  /\ UNCHANGED <<batcherInputs, failures, mb, reqsChan, respsChan, mbPc, drainI,
                 closeErr, submitted, handed, sent, nonBatcherVars>>

NextBatcher ==
  \/ AddTimeSeries
  \/ SendReqToChan
  \/ CloseCall
  \/ CloseReqsChan
  \/ WgWait
  \/ DrainResponse
  \/ CloseReturn
  \/ \E w \in 1..WorkerCount : WorkerRecv(w)
  \/ \E w \in 1..WorkerCount : WorkerSend(w)
  \/ \E w \in 1..WorkerCount : WorkerReport(w)
  \/ \E w \in 1..WorkerCount : WorkerWgDone(w)

SpecBatcher == InitBatcher /\ [][NextBatcher]_vars

SpecBatcherFullCap == InitBatcherFullCap /\ [][NextBatcher]_vars

\* the scheduler runs a goroutine that can take a step, the caller goes on to
\* submit and to close, and every send returns: some enabled step is taken
FairSpecBatcher == SpecBatcher /\ WF_vars(NextBatcher)

-----------------------------------------------------------------------------
(* Properties of the metricsBatcher *)

\* x / y rounded up
CeilDiv(x, y) == (x + y - 1) \div y

\* the series of a list of requests, one request after the other
RECURSIVE SeriesOfRequests(_)
SeriesOfRequests(reqs) ==
  IF reqs = <<>> THEN <<>>
  ELSE reqs[1].TimeSeries \o SeriesOfRequests(Tail(reqs))

\* close has handed over the remaining series
Flushed == mbPc \in {"closeChan", "wait", "drain", "closed"}

\* C3: after K addTimeSeries calls and close, with the batch cap C = 200,
\* exactly ceil(K/C) requests were handed to reqsChan; each but the last holds
\* C series, the last the remaining 1..C, and together they hold the submitted
\* series once each, in submission order (no request for K = 0).
C3_BatchesOfCap ==
  Flushed =>
    /\ batchCap = maxTimeSeriesPerUpload
    /\ submitted = toSubmit
    /\ Len(handed) = CeilDiv(submitted, maxTimeSeriesPerUpload)
    /\ \A n \in 1..Len(handed) :
         /\ n < Len(handed) => Len(handed[n].TimeSeries) = maxTimeSeriesPerUpload
         /\ Len(handed[n].TimeSeries) \in 1..maxTimeSeriesPerUpload
    /\ SeriesOfRequests(handed) = [i \in 1..submitted |-> i]

\* close returned after 401 series: two full requests and one of one series
C3_Witness ==
  /\ mbPc = "closed"
  /\ submitted = 2 * maxTimeSeriesPerUpload + 1
  /\ Len(handed) = 3
  /\ Len(handed[1].TimeSeries) = maxTimeSeriesPerUpload
  /\ Len(handed[2].TimeSeries) = maxTimeSeriesPerUpload
  /\ Len(handed[3].TimeSeries) = 1

\* how many times a request is in a sequence of requests
Occurrences(reqs, req) == Cardinality({i \in 1..Len(reqs) : reqs[i] = req})

\* how many workers are sending a request
InFlight(req) == Cardinality({w \in 1..WorkerCount : workers[w].req = req})

\* C4: every request handed to reqsChan is sent exactly once, by one worker,
\* before close returns: at any time it is in the queue, or with one worker, or
\* was sent once, failed or not, and never more than one of these; when close
\* has returned every handed request was sent.
C4_EachRequestSentOnce ==
  /\ \A n \in 1..Len(handed) :
       Occurrences(reqsChan.buf, handed[n]) + InFlight(handed[n]) + Len(sent[n]) = 1
  /\ mbPc = "closed" => \A n \in 1..Len(handed) : Len(sent[n]) = 1

\* close returned with two workers and at least three requests, the send of the
\* first failed and all the later ones were still sent
C4_Witness ==
  /\ mbPc = "closed"
  /\ Len(handed) = 6
  /\ Len(handed) >= 3
  /\ sent[1][1].errors # <<>>
  /\ \A n \in 2..Len(handed) : Len(sent[n]) = 1

\* a worker that has left its loop finds room in respsChan
ReportNeverBlocks ==
  \A w \in 1..WorkerCount :
    (workers[w].pc = "recv" /\ reqsChan.buf = <<>> /\ reqsChan.closed)
      => Len(respsChan.buf) < respsChanSize

\* C5: when every send eventually returns, close eventually returns, whatever
\* the number of workers and of submitted series, and a worker's write of its
\* response to respsChan never blocks.
C5_CloseEventuallyReturns ==
  []ReportNeverBlocks /\ <>(mbPc = "closed")

\* the caller is blocked in addTimeSeries on a full reqsChan while every worker
\* is in a send
C5_Witness ==
  /\ mbPc = "addSend"
  /\ Len(reqsChan.buf) = reqsChanSize
  /\ \A w \in 1..WorkerCount : workers[w].pc = "send"
  /\ Len(handed) = 6

RECURSIVE SumDropped(_)
SumDropped(log) ==
  IF log = <<>> THEN 0
  ELSE (IF log[1] = <<>> THEN 0 ELSE log[1][1].dropped) + SumDropped(Tail(log))

\* the errors returned by the sends of the log
ErrorsOfLog(log) ==
  {e \in UNION {{log[n][k].errors[i] : i \in 1..Len(log[n][k].errors)} :
                  <<n, k>> \in {<<n, k>> \in (1..Len(log)) \X {1} : Len(log[n]) >= 1}} :
     TRUE}

\* C6: when close returns, mb.droppedTimeSeries is the sum of the dropped counts
\* of the sends, and mb.allErrs holds every error a send returned, once each,
\* whichever worker made the send.
C6_TotalsAreSums ==
  mbPc = "closed" =>
    /\ mb.droppedTimeSeries = SumDropped(sent)
    /\ {mb.allErrs[i] : i \in 1..Len(mb.allErrs)} = ErrorsOfLog(sent)
    /\ Cardinality(ErrorsOfLog(sent)) = Len(mb.allErrs)

\* close returned with two errors recorded, of which the one of the later
\* request comes first (two workers reported them), both counted as drops
C6_Witness ==
  /\ mbPc = "closed"
  /\ Len(mb.allErrs) = 2
  /\ mb.allErrs[1].req > mb.allErrs[2].req
  /\ mb.allErrs[1].kind # mb.allErrs[2].kind
  /\ mb.droppedTimeSeries >= 2

\* the messages of the errors up to the n-th, each but the first after "; "
RECURSIVE MessagesUpTo(_, _)
MessagesUpTo(errs, n) ==
  IF n = 0 THEN <<>>
  ELSE IF n = 1 THEN Error(errs[1])
  ELSE MessagesUpTo(errs, n - 1) \o <<59, 32>> \o Error(errs[n])

\* C7: close returns nil if no error was recorded, the error itself if one was,
\* and otherwise a new error whose message is the recorded messages joined by
\* "; " in square brackets.
C7_CloseReturnsCollapsedError ==
  mbPc = "closed" =>
    /\ Len(mb.allErrs) = 0 => closeErr = Nil
    /\ Len(mb.allErrs) = 1 => closeErr = mb.allErrs[1]
    /\ Len(mb.allErrs) >= 2 =>
         /\ closeErr \notin {mb.allErrs[i] : i \in 1..Len(mb.allErrs)}
         /\ Error(closeErr)
              = <<91>> \o MessagesUpTo(mb.allErrs, Len(mb.allErrs)) \o <<93>>

\* close returned the joined error of two recorded errors
C7_Witness ==
  /\ mbPc = "closed"
  /\ Len(mb.allErrs) = 2
  /\ closeErr.kind = "joined"

\* the phase of the batcher: 0 Open, until close is called; 1 Closing, until
\* close returns; 2 Drained
Phase(pc) ==
  IF pc \in {"open", "addSend"} THEN 0 ELSE IF pc = "closed" THEN 2 ELSE 1

\* the workers that have written their response to respsChan
Reported == {w \in 1..WorkerCount : workers[w].pc \in {"wgDone", "exited"}}

\* a step of the batcher keeps the order of its lifecycle
C23_LifecycleStep ==
  /\ Phase(mbPc') >= Phase(mbPc)
  /\ (reqsChan'.closed /\ ~ reqsChan.closed) =>
       /\ Phase(mbPc) = 1
       /\ submitted = toSubmit
       /\ SeriesOfRequests(handed) = [i \in 1..toSubmit |-> i]
  /\ reqsChan.closed => reqsChan'.closed /\ Len(reqsChan'.buf) <= Len(reqsChan.buf)
  /\ \A w \in 1..WorkerCount :
       (w \in Reported' /\ w \notin Reported) =>
         /\ reqsChan.closed /\ reqsChan.buf = <<>>
         /\ respsChan'.buf = Append(respsChan.buf, workers[w].resp)
  /\ Reported \subseteq Reported'
  /\ drainI' # drainI =>
       /\ \A w \in 1..WorkerCount : workers[w].pc = "exited"
       /\ wg = 0

\* the results written are one for each worker that has left its loop, and
\* close returns after reading one for each worker
C23_OneResultPerWorker ==
  /\ Len(respsChan.buf) + drainI = Cardinality(Reported)
  /\ mbPc = "closed" =>
       /\ drainI = WorkerCount
       /\ Len(workers) = WorkerCount
       /\ respsChan.buf = <<>>
       /\ Reported = 1..WorkerCount

\* C23: the batcher only moves forward through Open, Closing and Drained:
\* reqsChan is closed only after the last, partial batch was handed to it;
\* each worker writes one result, and only once reqsChan is closed and empty;
\* close reads the results only after every worker has exited, one for each
\* worker.
C23_LifecycleMovesForward ==
  /\ [][C23_LifecycleStep]_vars
  /\ []C23_OneResultPerWorker

\* close returned with two workers after reading two results, and the last
\* of three handed requests was a partial batch
C23_Witness ==
  /\ mbPc = "closed"
  /\ WorkerCount = 2
  /\ drainI = 2
  /\ Len(handed) = 3
  /\ Len(handed[3].TimeSeries) < batchCap

\* the greater of two numbers
Greater(a, b) == IF a >= b THEN a ELSE b

\* the caller is in sendReqToChan and reqsChan holds max(max(n, 1), 5) requests
BlockedOnFullQueue ==
  /\ mbPc \in {"addSend", "closeSend"}
  /\ Len(reqsChan.buf) = Greater(Greater(numWorkers, 1), 5)

\* a step taken while the caller is blocked on the full queue is not the
\* caller's: nothing is handed over, and the caller goes on only after a step
\* in which a worker has taken a request
C25_BlockedStep ==
  BlockedOnFullQueue =>
    /\ handed' = handed
    /\ mbPc' = mbPc
    /\ submitted' = submitted
    /\ mb' = mb
    /\ Len(reqsChan'.buf) < Len(reqsChan.buf) =>
         \E w \in 1..Len(workers) :
           /\ workers[w].pc = "recv"
           /\ workers'[w].pc = "send"
           /\ workers'[w].req = Head(reqsChan.buf)

\* the handed requests that left reqsChan and whose send has not returned
SendsInFlight ==
  {n \in 1..Len(handed) :
     Len(sent[n]) = 0 /\ Occurrences(reqsChan.buf, handed[n]) = 0}

\* max(n, 1) workers run, at most that many sends are in flight, and reqsChan
\* holds at most max(max(n, 1), 5) requests
C25_WorkersAndQueueBounded ==
  /\ Len(workers) = Greater(numWorkers, 1)
  /\ DOMAIN workers = 1..Greater(numWorkers, 1)
  /\ Cardinality(SendsInFlight) <= Greater(numWorkers, 1)
  /\ Len(reqsChan.buf) <= Greater(Greater(numWorkers, 1), 5)

\* C25: a batcher asked for n workers runs max(n, 1) of them, so that at most
\* that many sends are in flight, and reqsChan never holds more than
\* max(max(n, 1), 5) requests; a submission made while reqsChan is full blocks
\* until a worker takes a request.
C25_BoundedWorkersAndBackpressure ==
  /\ []C25_WorkersAndQueueBounded
  /\ [][C25_BlockedStep]_vars

\* a batcher asked for no worker runs one; it is in a send while reqsChan
\* holds five requests and the caller is blocked handing over a seventh
C25_Witness ==
  /\ numWorkers = 0
  /\ Len(workers) = 1
  /\ workers[1].pc = "send"
  /\ Len(reqsChan.buf) = 5
  /\ mbPc = "addSend"
  /\ Len(handed) = 6

-----------------------------------------------------------------------------
(* createMetricDescriptorFromView and the cache metricDescriptors *)

\* "custom.googleapis.com/"
CustomPrefix ==
  <<99, 117, 115, 116, 111, 109, 46, 103, 111, 111, 103, 108, 101, 97, 112, 105,
    115, 46, 99, 111, 109, 47>>

\* "external.googleapis.com/"
ExternalPrefix ==
  <<101, 120, 116, 101, 114, 110, 97, 108, 46, 103, 111, 111, 103, 108, 101, 97,
    112, 105, 115, 46, 99, 111, 109, 47>>

\* "workload.googleapis.com/"
WorkloadPrefix ==
  <<119, 111, 114, 107, 108, 111, 97, 100, 46, 103, 111, 111, 103, 108, 101, 97,
    112, 105, 115, 46, 99, 111, 109, 47>>

knownExternalMetricPrefixes == <<CustomPrefix, ExternalPrefix, WorkloadPrefix>>

\* true unless the metric type starts with a known external prefix
builtinMetric(metricType) ==
  ~ \E i \in 1..Len(knownExternalMetricPrefixes) :
      HasPrefix(metricType, knownExternalMetricPrefixes[i])

\* the values of Options.GetMetricType: no formatter, or one that names the
\* view under "kubernetes.io/"
MetricTypeFormatters == {"nil", "kubernetes"}

\* path.Join("custom.googleapis.com", "opencensus", v.Name) for a name that is
\* one clean path element, unless a formatter is configured
metricType(formatter, v) ==
  IF formatter # "nil" THEN KubernetesPrefix \o v.Name
  ELSE CustomPrefix \o <<111, 112, 101, 110, 99, 101, 110, 115, 117, 115, 47>> \o v.Name

\* the view names: "a" and "b"
ViewNames == {<<97>>, <<98>>}

\* the aggregation types of a view; AggTypeNone is not one the exporter converts
AggTypes == {"AggTypeCount", "AggTypeNone"}

Views == [Name : ViewNames, Aggregation : AggTypes]

\* the error of viewToMetricDescriptor, Nil if the view converts
viewToMetricDescriptorErr(v) ==
  IF v.Aggregation \in {"AggTypeCount", "AggTypeSum", "AggTypeDistribution",
                        "AggTypeLastValue"}
  THEN Nil
  ELSE [kind |-> "unsupportedAggregation", name |-> v.Name]

Goroutines == 1..MaxGoroutines

IdleGoroutine == [pc |-> "idle", v |-> Nil, ret |-> Nil]

InitDesc ==
  /\ skipCMD \in BOOLEAN
  /\ getMetricType \in MetricTypeFormatters
  /\ metricDescriptors = {}
  /\ metricMu = 0
  /\ goroutines = [g \in Goroutines |-> IdleGoroutine]
  /\ regCalls = 0
  /\ remoteCreates = [n \in ViewNames |-> 0]
  /\ remoteFailed = [n \in ViewNames |-> 0]
  /\ returned = [n \in ViewNames |-> <<>>]
  /\ CombineUnused
  /\ BatcherUnused
  /\ ParseUnused
  /\ DistUnused
  /\ UploadUnused
  /\ SendUnused
  /\ CtxUnused

descInputs == <<skipCMD, getMetricType>>

\* the lookup e.metricDescriptors[viewName]
NeverCreated(cache, name) == FALSE
Created(cache, name) == name \in cache

\* metricMu.Lock() proceeds only while no goroutine holds the mutex
LockIgnoringHolder(mu) == TRUE
CanLock(mu) == mu = 0

\* the cache after createMetricDescriptor returned err for name
CacheRegardlessOfError(cache, name, err) == cache \cup {name}
CacheAfterCreate(cache, name, err) ==
  IF err # Nil THEN cache ELSE cache \cup {name}

\* the registration call of goroutine g returns ret
Return(g, ret) ==
  /\ goroutines' = [goroutines EXCEPT ![g] = [pc |-> "idle", v |-> Nil, ret |-> ret]]
  /\ returned' = [returned EXCEPT ![goroutines[g].v.Name] = Append(@, ret)]

\* goroutine g calls createMetricDescriptorFromView(v): with SkipCMD it returns
\* nil at once, otherwise it goes on to metricMu.Lock()
CreateMetricDescriptorFromViewCall(g, v) ==
  /\ goroutines[g].pc = "idle"
  /\ regCalls < MaxRegCalls
  /\ regCalls' = regCalls + 1
  /\ IF skipCMD
     THEN /\ goroutines' = [goroutines EXCEPT ![g] = IdleGoroutine]
          /\ returned' = [returned EXCEPT ![v.Name] = Append(@, Nil)]
     ELSE /\ goroutines' = [goroutines EXCEPT ![g] = [pc |-> "lock", v |-> v, ret |-> Nil]]
          /\ UNCHANGED returned
  /\ UNCHANGED <<descInputs, metricDescriptors, metricMu, remoteCreates, remoteFailed>>
  /\ UNCHANGED nonDescVars

\* goroutine g takes the mutex and runs up to the remote call: a created name
\* returns nil, a built-in metric type is cached and returns nil, a view that
\* does not convert returns the error, and otherwise createMetricDescriptor is
\* called with the mutex held (the deferred Unlock runs at the return)
CreateMetricDescriptorFromViewLocked(g) ==
  LET v == goroutines[g].v
      viewName == v.Name
      err == viewToMetricDescriptorErr(v)
  IN /\ goroutines[g].pc = "lock"
     /\ CanLock(metricMu)
     /\ IF Created(metricDescriptors, viewName)
        THEN /\ Return(g, Nil)
             /\ UNCHANGED <<metricDescriptors, metricMu, remoteCreates>>
        ELSE IF builtinMetric(metricType(getMetricType, v))
        THEN /\ metricDescriptors' = metricDescriptors \cup {viewName}
             /\ Return(g, Nil)
             /\ UNCHANGED <<metricMu, remoteCreates>>
        ELSE IF err # Nil
        THEN /\ Return(g, err)
             /\ UNCHANGED <<metricDescriptors, metricMu, remoteCreates>>
        ELSE /\ metricMu' = g
             /\ goroutines' = [goroutines EXCEPT ![g].pc = "create"]
             /\ remoteCreates' = [remoteCreates EXCEPT ![viewName] = @ + 1]
             /\ UNCHANGED <<metricDescriptors, returned>>
     /\ UNCHANGED <<descInputs, regCalls, remoteFailed>>
     /\ UNCHANGED nonDescVars

\* the error of the n-th remote create call for a name
CreateFailed(name, n) == [kind |-> "createFailed", name |-> name, call |-> n]

\* the remote create call of goroutine g returns, with an error or without:
\* the name is cached only without one, the mutex is released, and the
\* registration call returns what the remote call returned
CreateMetricDescriptorReturn(g) ==
  LET viewName == goroutines[g].v.Name
  IN /\ goroutines[g].pc = "create"
     /\ \E err \in {Nil, CreateFailed(viewName, remoteCreates[viewName])} :
          /\ metricDescriptors' = CacheAfterCreate(metricDescriptors, viewName, err)
          /\ remoteFailed' = [remoteFailed EXCEPT ![viewName] =
                                IF err # Nil THEN @ + 1 ELSE @]
          /\ Return(g, err)
     /\ metricMu' = 0
     /\ UNCHANGED <<descInputs, regCalls, remoteCreates>>
     /\ UNCHANGED nonDescVars

NextDesc ==
  \/ \E g \in Goroutines, v \in Views : CreateMetricDescriptorFromViewCall(g, v)
  \/ \E g \in Goroutines : CreateMetricDescriptorFromViewLocked(g)
  \/ \E g \in Goroutines : CreateMetricDescriptorReturn(g)

SpecDesc == InitDesc /\ [][NextDesc]_vars

-----------------------------------------------------------------------------
(* Properties of the descriptor cache *)

\* the view of name n that converts
ViewNamed(n) == [Name |-> n, Aggregation |-> "AggTypeCount"]

\* registration of name n reaches the remote create: descriptors are not
\* skipped and the metric type of n is not a built-in one
NeedsRemoteCreate(n) ==
  /\ ~ skipCMD
  /\ ~ builtinMetric(metricType(getMetricType, ViewNamed(n)))

\* the number of registration calls for n that returned nil
NilReturns(n) == Cardinality({i \in 1..Len(returned[n]) : returned[n][i] = Nil})

\* the number of remote create calls in flight for n
CreatesInFlight(n) ==
  Cardinality({g \in Goroutines :
                 goroutines[g].pc = "create" /\ goroutines[g].v.Name = n})

C8_OneCreatePerSuccess ==
  \A n \in ViewNames :
    /\ remoteFailed[n] = 0 => remoteCreates[n] <= 1
    /\ (NeedsRemoteCreate(n) /\ remoteFailed[n] = 0 /\ NilReturns(n) >= 1)
         => /\ remoteCreates[n] = 1
            /\ n \in metricDescriptors

C8_NoCreateForCachedName ==
  \A n \in ViewNames :
    remoteCreates'[n] # remoteCreates[n] => n \notin metricDescriptors

\* C8: while no remote create fails, the registration calls for one name make
\* exactly one remote create call between them, however many there are, and the
\* name is in the cache once one has returned; each uncached name gets its own
\* call, and no remote create call starts for a name that is in the cache.
C8_RegistrationIsIdempotent ==
  /\ []C8_OneCreatePerSuccess
  /\ [][C8_NoCreateForCachedName]_vars

\* two registration calls for "a" and one for "b" have returned nil after one
\* remote create call for each name
C8_Witness ==
  /\ returned[<<97>>] = <<Nil, Nil>>
  /\ returned[<<98>>] = <<Nil>>
  /\ remoteCreates[<<97>>] = 1
  /\ remoteCreates[<<98>>] = 1
  /\ metricDescriptors = ViewNames

\* C9 as stated: at most one remote create call is ever made for a name
C9_AtMostOneAttemptEver ==
  \A n \in ViewNames : remoteCreates[n] <= 1

\* C9: under any interleaving of registration calls, at most one remote create
\* call for a name is in flight at a time and at most one does not fail: every
\* call after the first follows the failure of all the earlier ones.
C9_AtMostOneAttemptNotFailed ==
  \A n \in ViewNames :
    /\ CreatesInFlight(n) <= 1
    /\ remoteCreates[n] <= remoteFailed[n] + 1
    /\ n \in metricDescriptors => CreatesInFlight(n) = 0

\* both goroutines register "a" at once: one is in the second remote create
\* call for it, after the first call failed, and the other waits for the mutex
C9_Witness ==
  /\ remoteCreates[<<97>>] = 2
  /\ remoteFailed[<<97>>] = 1
  /\ \E g, h \in Goroutines :
       /\ goroutines[g].pc = "create" /\ goroutines[g].v.Name = <<97>>
       /\ goroutines[h].pc = "lock" /\ goroutines[h].v.Name = <<97>>

\* the registration call of g returns from the remote create call
ReturnsFromCreate(g) ==
  goroutines[g].pc = "create" /\ goroutines'[g].pc = "idle"

\* the result of the registration call of g that returns in this step
ResultOf(g) ==
  LET n == goroutines[g].v.Name IN returned'[n][Len(returned'[n])]

C10_FailureLeavesCacheSuccessMarks ==
  \A g \in Goroutines :
    LET n == goroutines[g].v.Name
    IN /\ ReturnsFromCreate(g) =>
            IF remoteFailed'[n] # remoteFailed[n]
            THEN /\ ResultOf(g) = CreateFailed(n, remoteCreates[n])
                 /\ metricDescriptors' = metricDescriptors
                 /\ n \notin metricDescriptors'
            ELSE /\ ResultOf(g) = Nil
                 /\ metricDescriptors' = metricDescriptors \cup {n}
       /\ ( /\ goroutines[g].pc = "lock"
            /\ goroutines'[g].pc # "lock"
            /\ remoteFailed[n] > 0
            /\ n \notin metricDescriptors
            /\ viewToMetricDescriptorErr(goroutines[g].v) = Nil )
          => /\ goroutines'[g].pc = "create"
             /\ remoteCreates'[n] = remoteCreates[n] + 1

\* C10: a registration call whose remote create fails returns that error and
\* leaves the cache as it was, without the name, and the next call for the
\* name that gets the mutex makes a new remote create call; a registration
\* call whose remote create succeeds adds the name to the cache.
C10_FailedCreateIsRetried == [][C10_FailureLeavesCacheSuccessMarks]_vars

\* the first remote create for "a" failed and its error was returned, a second
\* registration call made a second remote create, and that one marked the name
C10_Witness ==
  /\ returned[<<97>>] = <<CreateFailed(<<97>>, 1), Nil>>
  /\ remoteCreates[<<97>>] = 2
  /\ <<97>> \in metricDescriptors

\* C22 as stated: the mutex is not held while a remote create call is in flight
C22_MutexNotHeldAcrossCreate ==
  \A g \in Goroutines : goroutines[g].pc = "create" => metricMu # g

\* C22: the mutex of the descriptor cache is held from the lookup until the
\* registration returns, the remote create call included: the goroutine whose
\* remote create is in flight holds it, so no two goroutines have a remote
\* create in flight at once, for one name or for two.
C22_MutexHeldAcrossCreate ==
  /\ \A g \in Goroutines : goroutines[g].pc = "create" => metricMu = g
  /\ Cardinality({g \in Goroutines : goroutines[g].pc = "create"}) <= 1

\* both goroutines register the uncached name "a" at once: the first remote
\* create call for it is in flight and the other goroutine waits for the mutex
C22_Witness ==
  /\ remoteCreates[<<97>>] = 1
  /\ <<97>> \notin metricDescriptors
  /\ \E g, h \in Goroutines :
       /\ goroutines[g].pc = "create" /\ goroutines[g].v.Name = <<97>>
       /\ metricMu = g
       /\ goroutines[h].pc = "lock" /\ goroutines[h].v.Name = <<97>>

-----------------------------------------------------------------------------
(* droppedTimeSeriesFromMonitoringAPIError on the errors of the backend *)

\* the index-or-range tokens of the messages: "2", "0-3", "7", "10-12" and
\* "3-1", a range whose first index is greater than its second
Tokens ==
  {[min |-> 2, max |-> 2, ranged |-> FALSE],
   [min |-> 0, max |-> 3, ranged |-> TRUE],
   [min |-> 7, max |-> 7, ranged |-> FALSE],
   [min |-> 10, max |-> 12, ranged |-> TRUE],
   [min |-> 3, max |-> 1, ranged |-> TRUE]}

\* the index lists of exactly n tokens
RECURSIVE TokenLists(_)
TokenLists(n) ==
  IF n = 0 THEN {<<>>}
  ELSE {<<tok>> \o rest : tok \in Tokens, rest \in TokenLists(n - 1)}

\* the sequences of non-empty index lists that hold n tokens between them
RECURSIVE IndexLists(_)
IndexLists(n) ==
  IF n = 0 THEN {<<>>}
  ELSE UNION {{<<first>> \o rest : first \in TokenLists(k), rest \in IndexLists(n - k)} :
                k \in 1..n}

\* "rpc error: code = InvalidArgument desc = " before the recognized prefix
RpcErrPrefix ==
  <<114, 112, 99, 32, 101, 114, 114, 111, 114, 58, 32, 99, 111, 100, 101, 32, 61,
    32, 73, 110, 118, 97, 108, 105, 100, 65, 114, 103, 117, 109, 101, 110, 116,
    32, 100, 101, 115, 99, 32, 61, 32>> \o PartialErrPrefix

\* how a message starts: with the recognized prefix, with the prefix after
\* other text, or with the text of another error
MessagePrefixes == {PartialErrPrefix, RpcErrPrefix, MsgUnavailable}

\* index lists the regex does not match: ": timeSeries[]", ": timeSeries[1,,2]",
\* ": timeSeries[a]", ": timeSeries[3-]" and ": timeSeries[2"
MalformedTails ==
  {RegexHead \o <<93>>,
   RegexHead \o <<49, 44, 44, 50, 93>>,
   RegexHead \o <<97, 93>>,
   RegexHead \o <<51, 45, 93>>,
   RegexHead \o <<50>>}

\* the errors of the backend: a prefix, then well-formed index lists, or one
\* malformed list, or nothing
APIErrors ==
  {[kind |-> "api", prefix |-> prefix, lists |-> lists, tail |-> <<>>] :
     prefix \in MessagePrefixes, lists \in UNION {IndexLists(n) : n \in 0..MaxTokens}}
  \cup
  {[kind |-> "api", prefix |-> prefix, lists |-> <<>>, tail |-> tail] :
     prefix \in MessagePrefixes, tail \in MalformedTails}

\* the numbers of series of the requests sent
RequestSizes == {5, 9}

InitParse ==
  /\ \E n \in RequestSizes :
       apiReq = [Name |-> ProjectsPrefix \o ProjectID, TimeSeries |-> [i \in 1..n |-> i]]
  /\ apiErr \in APIErrors
  /\ apiDropped = <<>>
  /\ CombineUnused
  /\ BatcherUnused
  /\ DescUnused
  /\ DistUnused
  /\ UploadUnused
  /\ SendUnused
  /\ CtxUnused

\* the call droppedTimeSeriesFromMonitoringAPIError(apiReq, apiErr)
DroppedTimeSeriesCall ==
  /\ apiDropped = <<>>
  /\ apiDropped' = <<droppedTimeSeriesFromMonitoringAPIError(apiReq, apiErr)>>
  /\ UNCHANGED <<apiReq, apiErr, nonParseVars>>

NextParse == DroppedTimeSeriesCall

SpecParse == InitParse /\ [][NextParse]_vars

-----------------------------------------------------------------------------
(* Properties of droppedTimeSeriesFromMonitoringAPIError *)

\* max - min + 1 summed over the tokens of an index list, a single index
\* counting 1
RECURSIVE TokensTotal(_)
TokensTotal(toks) ==
  IF toks = <<>> THEN 0
  ELSE (IF toks[1].ranged THEN toks[1].max - toks[1].min + 1 ELSE 1)
         + TokensTotal(Tail(toks))

RECURSIVE ListsTotal(_)
ListsTotal(lists) ==
  IF lists = <<>> THEN 0 ELSE TokensTotal(lists[1]) + ListsTotal(Tail(lists))

Index2 == [min |-> 2, max |-> 2, ranged |-> FALSE]
Range0to3 == [min |-> 0, max |-> 3, ranged |-> TRUE]
Index7 == [min |-> 7, max |-> 7, ranged |-> FALSE]
Range3to1 == [min |-> 3, max |-> 1, ranged |-> TRUE]

\* C11: for a message that starts with "One or more TimeSeries could not be
\* written:" and holds at least one index list, the count returned is the sum
\* of max - min + 1 over every token of every list, a single index counting 1;
\* "timeSeries[2]" gives 1 and "timeSeries[0-3,7]" gives 5.
C11_DroppedIsSumOfRanges ==
  (apiDropped # <<>> /\ apiErr.prefix = PartialErrPrefix /\ apiErr.lists # <<>>) =>
     /\ apiDropped[1] = ListsTotal(apiErr.lists)
     /\ apiErr.lists = << <<Index2>> >> => apiDropped[1] = 1
     /\ apiErr.lists = << <<Range0to3, Index7>> >> => apiDropped[1] = 5

\* the call returned 5 for "timeSeries[0-3,7]" against a request of 9 series
C11_Witness ==
  /\ apiDropped = <<5>>
  /\ apiErr.prefix = PartialErrPrefix
  /\ apiErr.lists = << <<Range0to3, Index7>> >>
  /\ Len(apiReq.TimeSeries) = 9

\* the message has not the recognized shape: it does not start with the
\* prefix, or it holds no well-formed index list, or one of its ranges has a
\* first index greater than its second
Unrecognized(err) ==
  \/ err.prefix # PartialErrPrefix
  \/ err.lists = <<>>
  \/ \E i \in 1..Len(err.lists) : \E j \in 1..Len(err.lists[i]) :
       err.lists[i][j].min > err.lists[i][j].max

\* C12 as stated: for every error whose message has not the recognized shape,
\* a reversed range included, the count returned is the number of series of
\* the request.
C12_UnrecognizedDropsWholeRequest ==
  (apiDropped # <<>> /\ Unrecognized(apiErr)) =>
     apiDropped[1] = Len(apiReq.TimeSeries)

-----------------------------------------------------------------------------
(* The requests of the metricsBatcher and the signatures of their series *)

\* C13 as stated: no request handed to reqsChan holds two series with the
\* same signature.
C13_NoDuplicateSignatureInHandedRequest ==
  \A n \in 1..Len(handed) :
    \A i, j \in 1..Len(handed[n].TimeSeries) :
      i < j => metricSignature(SeriesAt(handed[n].TimeSeries[i]).metric)
                 # metricSignature(SeriesAt(handed[n].TimeSeries[j]).metric)

-----------------------------------------------------------------------------
(* The conversion of distribution points: newTypedValue for view data and   *)
(* metricPointToMpbValue for metrics. Boundaries are float64 in the program;*)
(* the model draws them from a few integers around 0.                       *)

shouldInsertZeroBoundOfAny(bounds) == Len(bounds) > 0
shouldInsertZeroBound(bounds) == Len(bounds) > 0 /\ bounds[1] > 0

addZeroBucketCountNever(insert, counts) == counts
addZeroBucketCountOnCondition(insert, counts) ==
  IF insert THEN <<0>> \o counts ELSE counts

addZeroBoundOnCondition(insert, bounds) ==
  IF insert THEN <<0>> \o bounds ELSE bounds

\* metricBucketToBucketCountsAndExemplars: the counts of the buckets, in order
metricBucketToBucketCounts(buckets) == [i \in 1..Len(buckets) |-> buckets[i].Count]

\* newTypedValue, case *view.DistributionData: the bounds are the buckets of
\* the aggregation
newTypedValue(point) ==
  \E insertZeroBound \in {shouldInsertZeroBound(point.Bounds)} :
    distValue' = <<[hasBucketOptions |-> TRUE,
                    Bounds |-> addZeroBoundOnCondition(insertZeroBound, point.Bounds),
                    BucketCounts |-> addZeroBucketCountOnCondition(insertZeroBound,
                                                                    point.CountPerBucket)]>>

\* metricPointToMpbValue, case *metricdata.Distribution: bucket options are
\* set only if the distribution has them
metricPointToMpbValue(point) ==
  \E insertZeroBound \in {IF point.hasBucketOptions
                          THEN shouldInsertZeroBound(point.Bounds) ELSE FALSE} :
    distValue' = <<[hasBucketOptions |-> point.hasBucketOptions,
                    Bounds |-> IF point.hasBucketOptions
                               THEN addZeroBoundOnCondition(insertZeroBound, point.Bounds)
                               ELSE <<>>,
                    BucketCounts |-> addZeroBucketCountOnCondition(insertZeroBound,
                                       metricBucketToBucketCounts(point.Buckets))]>>

\* the values of the boundaries
BoundValues == {-1, 0, 1, 2}

\* the lists of boundaries: strictly increasing, of up to MaxBounds values
BoundLists ==
  UNION {{b \in [1..n -> BoundValues] : \A i \in 1..(n - 1) : b[i] < b[i + 1]} :
           n \in 0..MaxBounds}

\* the lists of n bucket counts
CountLists(n) == [1..n -> {0, 1}]

\* the distributions converted: of view data, with one count per boundary or
\* one more; of a metric, the same or without bucket options
Distributions ==
  UNION {{[conversion |-> "view", Bounds |-> b, CountPerBucket |-> c] :
            c \in CountLists(Len(b)) \cup CountLists(Len(b) + 1)} : b \in BoundLists}
  \cup
  UNION {{[conversion |-> "metric", hasBucketOptions |-> TRUE, Bounds |-> b,
           Buckets |-> [i \in 1..Len(c) |-> [Count |-> c[i]]]] :
            c \in CountLists(Len(b)) \cup CountLists(Len(b) + 1)} : b \in BoundLists}
  \cup
  {[conversion |-> "metric", hasBucketOptions |-> FALSE, Bounds |-> <<>>,
    Buckets |-> [i \in 1..Len(c) |-> [Count |-> c[i]]]] :
     c \in UNION {CountLists(n) : n \in 0..MaxBounds}}

InitDist ==
  /\ distPoint \in Distributions
  /\ distValue = <<>>
  /\ CombineUnused
  /\ BatcherUnused
  /\ DescUnused
  /\ ParseUnused
  /\ UploadUnused
  /\ SendUnused
  /\ CtxUnused

\* the point of view data is converted
ConvertViewPoint ==
  /\ distValue = <<>>
  /\ distPoint.conversion = "view"
  /\ newTypedValue(distPoint)
  /\ UNCHANGED <<distPoint, nonDistVars>>

\* the point of a metric is converted
ConvertMetricPoint ==
  /\ distValue = <<>>
  /\ distPoint.conversion = "metric"
  /\ metricPointToMpbValue(distPoint)
  /\ UNCHANGED <<distPoint, nonDistVars>>

NextDist == ConvertViewPoint \/ ConvertMetricPoint

SpecDist == InitDist /\ [][NextDist]_vars

\* the bucket counts of the distribution that is converted
InputCounts ==
  IF distPoint.conversion = "view" THEN distPoint.CountPerBucket
  ELSE metricBucketToBucketCounts(distPoint.Buckets)

\* C14: the conversion prepends a 0 boundary and a 0 count exactly when the
\* boundary list is non-empty and starts above 0; otherwise, a first boundary
\* of 0 included, boundaries and counts stay as they are; the boundaries of
\* the result never ask for a zero boundary again; one rule for both
\* conversions.
C14_ZeroBucketInsertedOnce ==
  distValue # <<>> =>
    /\ IF Len(distPoint.Bounds) > 0 /\ distPoint.Bounds[1] > 0
       THEN /\ distValue[1].Bounds = <<0>> \o distPoint.Bounds
            /\ distValue[1].BucketCounts = <<0>> \o InputCounts
       ELSE /\ distValue[1].Bounds = distPoint.Bounds
            /\ distValue[1].BucketCounts = InputCounts
    /\ ~ shouldInsertZeroBound(distValue[1].Bounds)

\* a metric's distribution that starts at 1 got the zero boundary and count
C14_Witness ==
  /\ distPoint.conversion = "metric"
  /\ distPoint.Bounds = <<1, 2>>
  /\ distValue # <<>>
  /\ distValue[1].Bounds = <<0, 1, 2>>
  /\ distValue[1].BucketCounts[1] = 0

-----------------------------------------------------------------------------
(* uploadMetrics and makeReq *)

\* largest number of metrics in a small input of uploadMetrics, and of view
\* data in an input of makeReq
MaxMetrics == 2
\* largest limit passed to makeReq
MaxLimit == 5
\* number of export cycles that run on one exporter
MaxCycles == 2
\* number of distinct label values among the series of a large metric
LabelValuesOfLargeMetric == 150

\* the Descriptor.Type values of a metric
MetricDescriptorTypes == {"TypeCumulativeInt64", "TypeGaugeInt64", "TypeSummary"}

\* metricDescriptorTypeToMetricKind: the metric kind of the descriptor type
metricDescriptorTypeToMetricKind(metric) ==
  CASE metric.Descriptor.Type = "TypeCumulativeInt64" -> "CUMULATIVE"
    [] metric.Descriptor.Type = "TypeGaugeInt64"      -> "GAUGE"
    [] OTHER                                          -> "METRIC_KIND_UNSPECIFIED"

\* the dynamic types of a point's Value: int64 and float64 are converted, a
\* *metricdata.Summary is not
PointValueTypes == {"int64", "float64", "summary"}

\* metricPointToMpbValue: the error for a value of the given dynamic type
metricPointToMpbValueErr(valueType) == valueType \notin {"int64", "float64"}

\* metricTsToMpbPoint: the error of the first point that is not converted
metricTsToMpbPointErr(series) ==
  \E p \in 1..Len(series.Points) : metricPointToMpbValueErr(series.Points[p])

\* metricLabelsToTsLabels with no default labels and every value present: an
\* error when keys and values differ in number, else the map from key to value
metricLabelsToTsLabels(labelKeys, labelValues) ==
  IF Len(labelKeys) # Len(labelValues)
  THEN [err |-> TRUE, labels |-> [k \in {} |-> <<>>]]
  ELSE [err |-> FALSE,
        labels |-> [k \in {labelKeys[i] : i \in 1..Len(labelKeys)} |->
                      labelValues[CHOOSE i \in 1..Len(labelKeys) :
                                    /\ labelKeys[i] = k
                                    /\ \A j \in (i + 1)..Len(labelKeys) : labelKeys[j] # k]]]

\* metricToMpbTs with every series converted, whatever its points and labels
metricToMpbTsOfEverySeries(metric, m) ==
  IF metricDescriptorTypeToMetricKind(metric) = "METRIC_KIND_UNSPECIFIED" THEN <<>>
  ELSE [j \in 1..Len(metric.TimeSeries) |->
          [metric |-> [type   |-> metric.metricType,
                       labels |-> [k \in {} |-> <<>>]],
           from   |-> <<m, j>>]]

\* metricToMpbTs of the metric at position m of the metrics argument: nothing
\* for a metric of unspecified kind, else the series whose points and labels
\* convert, in order; from says which series of which metric each one was
metricToMpbTs(metric, m) ==
  IF metricDescriptorTypeToMetricKind(metric) = "METRIC_KIND_UNSPECIFIED" THEN <<>>
  ELSE LET kept == SelectSeq([j \in 1..Len(metric.TimeSeries) |-> j],
                     LAMBDA j :
                       /\ ~metricTsToMpbPointErr(metric.TimeSeries[j])
                       /\ ~metricLabelsToTsLabels(metric.Descriptor.LabelKeys,
                             metric.TimeSeries[j].LabelValues).err)
       IN  [k \in 1..Len(kept) |->
              [metric |-> [type   |-> metric.metricType,
                           labels |-> metricLabelsToTsLabels(
                                        metric.Descriptor.LabelKeys,
                                        metric.TimeSeries[kept[k]].LabelValues).labels],
               from   |-> <<m, kept[k]>>]]

\* the second loop of uploadMetrics: the series of every metric, appended
RECURSIVE ConvertMetrics(_, _)
ConvertMetrics(ms, m) ==
  IF m > Len(ms) THEN <<>>
  ELSE metricToMpbTs(ms[m], m) \o ConvertMetrics(ms, m + 1)

\* the end of a batch without the cap at maxTimeSeriesPerUpload
batchEndUncapped(start, n) == n

\* the end of the batch that starts after start, of n series
batchEnd(start, n) ==
  IF start + maxTimeSeriesPerUpload > n THEN n ELSE start + maxTimeSeriesPerUpload

\* the create calls for a list of requests, the last request first
CallsToInReverse(endpoint, reql) ==
  [r \in 1..Len(reql) |-> [endpoint |-> endpoint, req |-> reql[Len(reql) + 1 - r]]]

\* the create calls of one endpoint for a list of requests
CallsTo(endpoint, reql) ==
  [r \in 1..Len(reql) |-> [endpoint |-> endpoint, req |-> reql[r]]]

\* the batch loop of uploadMetrics from start on: per batch, the requests of
\* the non-service series to createTimeSeries, then those of the service
\* series to createServiceTimeSeries
RECURSIVE BatchCalls(_, _)
BatchCalls(all, start) ==
  IF start >= Len(all) THEN <<>>
  ELSE LET end   == batchEnd(start, Len(all))
           parts == splitTimeSeriesOf(SubSeq(all, start + 1, end), LAMBDA t : t)
       IN  (IF Len(parts.nonServiceTs) > 0
            THEN CallsTo("createTimeSeries",
                   combineTimeSeriesToCreateTimeSeriesRequest(parts.nonServiceTs))
            ELSE <<>>)
           \o (IF Len(parts.serviceTs) > 0
               THEN CallsTo("createServiceTimeSeries",
                      combineTimeSeriesToCreateTimeSeriesRequest(parts.serviceTs))
               ELSE <<>>)
           \o BatchCalls(all, end)

\* createMetricDescriptorFromMetric on the cache, the remote create call (if
\* one is made) returning remoteErr: the returned error, the cache afterwards
\* and whether the remote call was made
createMetricDescriptorFromMetric(metric, cache, remoteErr) ==
  IF skipCMD THEN [err |-> Nil, cache |-> cache, remote |-> FALSE]
  ELSE IF Created(cache, metric.Descriptor.Name)
  THEN [err |-> Nil, cache |-> cache, remote |-> FALSE]
  ELSE IF builtinMetric(metric.metricType)
  THEN [err |-> Nil, cache |-> cache \cup {metric.Descriptor.Name}, remote |-> FALSE]
  ELSE [err |-> remoteErr,
        cache |-> CacheAfterCreate(cache, metric.Descriptor.Name, remoteErr),
        remote |-> TRUE]

\* the return of uploadMetrics: nil, the only error, or one error whose
\* message is "[" + the messages joined by "; " + "]"
uploadMetricsReturn(errs) ==
  IF Len(errs) = 0 THEN Nil
  ELSE IF Len(errs) = 1 THEN errs[1]
  ELSE [kind |-> "joined", msg |-> <<91>> \o Join(ErrMsgs(errs), <<59, 32>>) \o <<93>>]

\* newLabels with no default labels: the value of the last tag of each key
newLabels(tags) ==
  [k \in {tags[i].Key : i \in 1..Len(tags)} |->
     tags[CHOOSE i \in 1..Len(tags) :
            /\ tags[i].Key = k
            /\ \A j \in (i + 1)..Len(tags) : tags[j].Key # k].Value]

\* the first loops of makeReq: one series for each row of each view data
RECURSIVE ViewDataSeries(_, _)
ViewDataSeries(vdl, d) ==
  IF d > Len(vdl) THEN <<>>
  ELSE [r \in 1..Len(vdl[d].Rows) |->
          [metric |-> [type   |-> metricType(getMetricType, vdl[d].View),
                       labels |-> newLabels(vdl[d].Rows[r].Tags)],
           from   |-> <<d, r>>]]
       \o ViewDataSeries(vdl, d + 1)

\* the second loop of makeReq from the i-th series on: timeSeries is split into
\* requests when it holds lim series, and at the end if it holds any
RECURSIVE makeReqLoop(_, _, _, _, _)
makeReqLoop(all, i, timeSeries, rs, lim) ==
  IF i > Len(all)
  THEN IF Len(timeSeries) > 0
       THEN rs \o combineTimeSeriesToCreateTimeSeriesRequest(timeSeries)
       ELSE rs
  ELSE IF Len(timeSeries) + 1 = lim
  THEN makeReqLoop(all, i + 1, <<>>,
         rs \o combineTimeSeriesToCreateTimeSeriesRequest(Append(timeSeries, all[i])),
         lim)
  ELSE makeReqLoop(all, i + 1, Append(timeSeries, all[i]), rs, lim)

makeReq(vdl, lim) == makeReqLoop(ViewDataSeries(vdl, 1), 1, <<>>, <<>>, lim)

-----------------------------------------------------------------------------
(* Inputs of uploadMetrics and makeReq *)

\* a series of a metric: its label values and the value types of its points
MetricTs(labelValues, points) == [LabelValues |-> labelValues, Points |-> points]

\* the series lists of a small metric with the one label key "k1": none, one,
\* two with one signature, two with different ones, one whose second point has
\* an unsupported value next to a good one (in both orders), one with two label
\* values next to a good one, and one unsupported series alone
SmallSeriesLists ==
  { <<>>,
    <<MetricTs(<<ValV1>>, <<"int64">>)>>,
    <<MetricTs(<<ValV1>>, <<"int64">>), MetricTs(<<ValV1>>, <<"float64">>)>>,
    <<MetricTs(<<ValV1>>, <<"int64">>), MetricTs(<<ValV2>>, <<"int64">>)>>,
    <<MetricTs(<<ValV1>>, <<"int64", "summary">>), MetricTs(<<ValV2>>, <<"int64">>)>>,
    <<MetricTs(<<ValV1>>, <<"int64">>), MetricTs(<<ValV2>>, <<"summary">>)>>,
    <<MetricTs(<<ValV1, ValV2>>, <<"int64">>), MetricTs(<<ValV2>>, <<"int64">>)>>,
    <<MetricTs(<<ValV1>>, <<"summary">>)>> }

\* a metric; metricType is what se.metricTypeFromProto makes of its name under
\* the exporter's options
Metric(name, mt, descType, labelKeys, tss) ==
  [Descriptor |-> [Name |-> name, Type |-> descType, LabelKeys |-> labelKeys],
   metricType |-> mt,
   TimeSeries |-> tss]

\* the small metrics: "a" of a custom type with any of the series lists, "b"
\* of a service type, and "b" as a summary, which has no metric kind
SmallMetrics ==
  { Metric(<<97>>, CustomPrefix \o <<97>>, "TypeCumulativeInt64", <<"k1">>, tss)
      : tss \in SmallSeriesLists }
  \cup { Metric(<<98>>, KubernetesPrefix \o <<98>>, "TypeGaugeInt64", <<"k1">>, tss)
           : tss \in { <<MetricTs(<<ValV1>>, <<"int64">>)>>,
                       <<MetricTs(<<ValV1>>, <<"int64">>),
                         MetricTs(<<ValV1>>, <<"summary">>)>> } }
  \cup { Metric(<<98>>, CustomPrefix \o <<98>>, "TypeSummary", <<"k1">>,
                <<MetricTs(<<ValV1>>, <<"summary">>)>>) }

\* a large metric of n series: the label values of the first
\* maxTimeSeriesPerUpload series are the decimal numerals of their positions,
\* all different; those of the later ones are the numerals of their positions
\* modulo LabelValuesOfLargeMetric, so that signatures repeat among them
LargeMetric(name, mt, n) ==
  Metric(name, mt, "TypeCumulativeInt64", <<"k1">>,
         [j \in 1..n |->
            MetricTs(<<IF j <= maxTimeSeriesPerUpload THEN Itoa(j)
                       ELSE Itoa(j % LabelValuesOfLargeMetric)>>, <<"int64">>)])

\* the series counts of the large inputs: a full batch, one more, and two
\* full batches and one more
LargeSeriesCounts ==
  {maxTimeSeriesPerUpload, maxTimeSeriesPerUpload + 1, MaxSeriesFullCap}

\* the metrics arguments: up to MaxMetrics small metrics, or a large custom
\* metric followed by a service one of two series
MetricsInputs ==
  UNION { [1..n -> SmallMetrics] : n \in 1..MaxMetrics }
  \cup { <<LargeMetric(<<97>>, CustomPrefix \o <<97>>, n),
           LargeMetric(<<98>>, KubernetesPrefix \o <<98>>, 2)>>
           : n \in LargeSeriesCounts }

\* a row of view data with the given value of the tag key "k1"
Row(value) == [Tags |-> <<[Key |-> "k1", Value |-> value]>>]

\* the view data of the batching test, two rows with different tag values, and
\* one with a single row
ViewDatas ==
  { [View |-> [Name |-> name], Rows |-> rows] :
      name \in ViewNames,
      rows \in { <<Row(ValV1), Row(ValV2)>>, <<Row(ValV1)>> } }

VdsInputs == UNION { [1..n -> ViewDatas] : n \in 1..MaxMetrics }

\* the view data uploadStats is given: their views have an aggregation, which
\* viewToMetricDescriptor converts or not
StatsViewDatas ==
  { [View |-> v, Rows |-> rows] :
      v \in Views,
      rows \in { <<Row(ValV1), Row(ValV2)>>, <<Row(ValV1)>> } }

StatsVdsInputs == UNION { [1..n -> StatsViewDatas] : n \in 1..MaxMetrics }

\* createMetricDescriptorFromView on the cache, the remote create call (if one
\* is made) returning remoteErr: the returned error, the cache afterwards and
\* whether the remote call was made
createMetricDescriptorFromView(v, cache, remoteErr) ==
  IF skipCMD THEN [err |-> Nil, cache |-> cache, remote |-> FALSE]
  ELSE IF Created(cache, v.Name)
  THEN [err |-> Nil, cache |-> cache, remote |-> FALSE]
  ELSE IF builtinMetric(metricType(getMetricType, v))
  THEN [err |-> Nil, cache |-> cache \cup {v.Name}, remote |-> FALSE]
  ELSE IF viewToMetricDescriptorErr(v) # Nil
  THEN [err |-> viewToMetricDescriptorErr(v), cache |-> cache, remote |-> FALSE]
  ELSE [err |-> remoteErr,
        cache |-> CacheAfterCreate(cache, v.Name, remoteErr),
        remote |-> TRUE]

\* an uploadStats that goes on after an error
uploadStatsGoingOn(err, next) == next

\* uploadStats after a call that returned err: it returns on an error, and
\* goes on to next otherwise
uploadStatsAfter(err, next) == IF err # Nil THEN "done" ELSE next

\* the exporter before its first export: nothing registered, nobody in a
\* registration call
InitExporter ==
  /\ metricDescriptors = {}
  /\ metricMu = 0
  /\ goroutines = [g \in Goroutines |-> IdleGoroutine]
  /\ regCalls = 0
  /\ remoteCreates = [n \in ViewNames |-> 0]
  /\ remoteFailed = [n \in ViewNames |-> 0]
  /\ returned = [n \in ViewNames |-> <<>>]

InitUpload ==
  /\ \/ /\ uploadOp = "uploadMetrics"
        /\ metrics \in MetricsInputs
        /\ vds = <<>>
        /\ limit = 0
        /\ skipCMD \in BOOLEAN
        /\ getMetricType = "nil"
        /\ uploadPc = "register"
        /\ cycle = 1
     \/ /\ uploadOp = "makeReq"
        /\ metrics = <<>>
        /\ vds \in VdsInputs
        /\ limit \in 1..MaxLimit
        /\ skipCMD = FALSE
        /\ getMetricType \in MetricTypeFormatters
        /\ uploadPc = "makeReq"
        /\ cycle = 0
     \/ /\ uploadOp = "uploadStats"
        /\ metrics = <<>>
        /\ vds \in StatsVdsInputs
        /\ limit = maxTimeSeriesPerUpload
        /\ skipCMD \in BOOLEAN
        /\ getMetricType \in MetricTypeFormatters
        /\ uploadPc = "statsRegister"
        /\ cycle = 0
  /\ InitExporter
  /\ metricI = 0
  /\ uploadErrors = <<>>
  /\ allTimeSeries = <<>>
  /\ pending = <<>>
  /\ issued = <<>>
  /\ uploadErr = <<>>
  /\ regFailed = {}
  /\ uploadFailures = 0
  /\ makeReqRet = <<>>
  /\ CombineUnused
  /\ BatcherUnused
  /\ ParseUnused
  /\ DistUnused
  /\ SendUnused
  /\ CtxUnused

uploadInputs == <<uploadOp, metrics, vds, limit, skipCMD, getMetricType>>
exporterIdle == <<metricMu, goroutines, regCalls, returned>>
otherThanUpload == <<combineVars, batcherVars, parseVars, distVars, sendVars, ctxVars>>

\* uploadMetrics, first loop: createMetricDescriptorFromMetric on the next
\* metric; its error, if any, is appended to errors and the loop goes on
UploadRegister ==
  /\ uploadPc = "register"
  /\ metricI < Len(metrics)
  /\ CanLock(metricMu)
  /\ \E name \in {metrics[metricI + 1].Descriptor.Name} :
     \E fails \in BOOLEAN :
     \E res \in {createMetricDescriptorFromMetric(metrics[metricI + 1], metricDescriptors,
                   IF fails THEN CreateFailed(name, remoteCreates[name]) ELSE Nil)} :
       /\ (fails => res.remote /\ uploadFailures < MaxFailures)
       /\ metricDescriptors' = res.cache
       /\ remoteCreates' = IF res.remote
                           THEN [remoteCreates EXCEPT ![name] = @ + 1]
                           ELSE remoteCreates
       /\ remoteFailed' = IF fails
                          THEN [remoteFailed EXCEPT ![name] = @ + 1]
                          ELSE remoteFailed
       /\ uploadFailures' = IF fails THEN uploadFailures + 1 ELSE uploadFailures
       /\ uploadErrors' = IF res.err # Nil THEN Append(uploadErrors, res.err)
                          ELSE uploadErrors
       /\ regFailed' = IF res.err # Nil THEN regFailed \cup {metricI + 1} ELSE regFailed
  /\ metricI' = metricI + 1
  /\ UNCHANGED <<uploadInputs, exporterIdle, uploadPc, allTimeSeries, pending, issued,
                 uploadErr, cycle, makeReqRet, otherThanUpload>>

\* uploadMetrics, second loop: metricToMpbTs on every metric, which returns
\* no error for a metric that is not nil; the batch loop then has its create
\* calls to make
UploadConvert ==
  /\ uploadPc = "register"
  /\ metricI = Len(metrics)
  /\ \E all \in {ConvertMetrics(metrics, 1)} :
       /\ allTimeSeries' = all
       /\ pending' = BatchCalls(all, 0)
  /\ uploadPc' = "send"
  /\ UNCHANGED <<uploadInputs, descVars, metricI, uploadErrors, issued, uploadErr,
                 cycle, regFailed, uploadFailures, makeReqRet, otherThanUpload>>

\* uploadMetrics, batch loop: the next create call, which the backend fails
\* or not; an error is appended to errors and the loop goes on
UploadSend ==
  /\ uploadPc = "send"
  /\ pending # <<>>
  /\ \E fails \in BOOLEAN :
     \E err \in {IF fails
                 THEN BackendErr("unavailable", Len(issued) + 1, Head(pending).endpoint)
                 ELSE Nil} :
       /\ (fails => uploadFailures < MaxFailures)
       /\ uploadFailures' = IF fails THEN uploadFailures + 1 ELSE uploadFailures
       /\ issued' = Append(issued, [endpoint |-> Head(pending).endpoint,
                                    req |-> Head(pending).req, err |-> err])
       /\ uploadErrors' = IF fails THEN Append(uploadErrors, err) ELSE uploadErrors
  /\ pending' = Tail(pending)
  /\ UNCHANGED <<uploadInputs, descVars, uploadPc, metricI, allTimeSeries, uploadErr,
                 cycle, regFailed, makeReqRet, otherThanUpload>>

\* uploadMetrics returns what it makes of errors
UploadReturn ==
  /\ uploadPc = "send"
  /\ pending = <<>>
  /\ uploadErr' = <<uploadMetricsReturn(uploadErrors)>>
  /\ uploadPc' = "done"
  /\ UNCHANGED <<uploadInputs, descVars, metricI, uploadErrors, allTimeSeries, pending,
                 issued, cycle, regFailed, uploadFailures, makeReqRet, otherThanUpload>>

\* the next export cycle: uploadMetrics is called again on the same exporter
\* with the same metrics
UploadNextCycle ==
  /\ uploadOp = "uploadMetrics"
  /\ uploadPc = "done"
  /\ cycle < MaxCycles
  /\ cycle' = cycle + 1
  /\ uploadPc' = "register"
  /\ metricI' = 0
  /\ uploadErrors' = <<>>
  /\ allTimeSeries' = <<>>
  /\ pending' = <<>>
  /\ issued' = <<>>
  /\ uploadErr' = <<>>
  /\ regFailed' = {}
  /\ UNCHANGED <<uploadInputs, descVars, uploadFailures, makeReqRet, otherThanUpload>>

\* one call of makeReq(vds, limit)
MakeReq ==
  /\ uploadPc = "makeReq"
  /\ makeReqRet' = <<makeReq(vds, limit)>>
  /\ uploadPc' = "done"
  /\ UNCHANGED <<uploadInputs, descVars, metricI, uploadErrors, allTimeSeries, pending,
                 issued, uploadErr, cycle, regFailed, uploadFailures, otherThanUpload>>

\* uploadStats, first loop: createMetricDescriptorFromView on the view of the
\* next view data; its error, if any, is returned
StatsRegister ==
  /\ uploadPc = "statsRegister"
  /\ metricI < Len(vds)
  /\ CanLock(metricMu)
  /\ \E name \in {vds[metricI + 1].View.Name} :
     \E fails \in BOOLEAN :
     \E res \in {createMetricDescriptorFromView(vds[metricI + 1].View, metricDescriptors,
                   IF fails THEN CreateFailed(name, remoteCreates[name]) ELSE Nil)} :
       /\ (fails => res.remote /\ uploadFailures < MaxFailures)
       /\ metricDescriptors' = res.cache
       /\ remoteCreates' = IF res.remote
                           THEN [remoteCreates EXCEPT ![name] = @ + 1]
                           ELSE remoteCreates
       /\ remoteFailed' = IF fails
                          THEN [remoteFailed EXCEPT ![name] = @ + 1]
                          ELSE remoteFailed
       /\ uploadFailures' = IF fails THEN uploadFailures + 1 ELSE uploadFailures
       /\ uploadErr' = IF res.err # Nil THEN <<res.err>> ELSE uploadErr
       /\ uploadPc' = uploadStatsAfter(res.err, "statsRegister")
  /\ metricI' = metricI + 1
  /\ UNCHANGED <<uploadInputs, exporterIdle, uploadErrors, allTimeSeries, pending, issued,
                 cycle, regFailed, makeReqRet, otherThanUpload>>

\* uploadStats, after the first loop: e.makeReq(vds, maxTimeSeriesPerUpload),
\* whose requests all go to createTimeSeries
StatsMakeReq ==
  /\ uploadPc = "statsRegister"
  /\ metricI = Len(vds)
  /\ pending' = CallsTo("createTimeSeries", makeReq(vds, limit))
  /\ uploadPc' = "statsSend"
  /\ UNCHANGED <<uploadInputs, descVars, metricI, uploadErrors, allTimeSeries, issued,
                 uploadErr, cycle, regFailed, uploadFailures, makeReqRet, otherThanUpload>>

\* uploadStats, second loop: createTimeSeries on the next request; its error,
\* if any, is returned
StatsSend ==
  /\ uploadPc = "statsSend"
  /\ pending # <<>>
  /\ \E fails \in BOOLEAN :
     \E err \in {IF fails
                 THEN BackendErr("unavailable", Len(issued) + 1, Head(pending).endpoint)
                 ELSE Nil} :
       /\ (fails => uploadFailures < MaxFailures)
       /\ uploadFailures' = IF fails THEN uploadFailures + 1 ELSE uploadFailures
       /\ issued' = Append(issued, [endpoint |-> Head(pending).endpoint,
                                    req |-> Head(pending).req, err |-> err])
       /\ uploadErr' = IF fails THEN <<err>> ELSE uploadErr
       /\ uploadPc' = uploadStatsAfter(err, "statsSend")
  /\ pending' = Tail(pending)
  /\ UNCHANGED <<uploadInputs, descVars, metricI, uploadErrors, allTimeSeries,
                 cycle, regFailed, makeReqRet, otherThanUpload>>

\* uploadStats returns nil after the last request
StatsReturn ==
  /\ uploadPc = "statsSend"
  /\ pending = <<>>
  /\ uploadErr' = <<Nil>>
  /\ uploadPc' = "done"
  /\ UNCHANGED <<uploadInputs, descVars, metricI, uploadErrors, allTimeSeries, pending,
                 issued, cycle, regFailed, uploadFailures, makeReqRet, otherThanUpload>>

NextUpload ==
  \/ UploadRegister
  \/ UploadConvert
  \/ UploadSend
  \/ UploadReturn
  \/ UploadNextCycle
  \/ MakeReq
  \/ StatsRegister
  \/ StatsMakeReq
  \/ StatsSend
  \/ StatsReturn

SpecUpload == InitUpload /\ [][NextUpload]_vars

-----------------------------------------------------------------------------
(* Batching of uploadMetrics and makeReq *)

\* the number of places the series s takes in the requests of reql
PlacesOf(s, reql) ==
  Cardinality({ <<r, k>> \in (1..Len(reql)) \X (1..MaxSeriesFullCap + MaxMetrics) :
                  /\ k <= Len(reql[r].TimeSeries)
                  /\ reql[r].TimeSeries[k] = s })

\* the requests hold the series of all, and nothing else, once each
HoldExactlyOnce(reql, all) ==
  /\ \A r \in 1..Len(reql) : \A k \in 1..Len(reql[r].TimeSeries) :
       \E i \in 1..Len(all) : all[i] = reql[r].TimeSeries[k]
  /\ \A i \in 1..Len(all) : PlacesOf(all[i], reql) = 1

\* the c-th slice of lim series of all, counted from 0, as a set
Slice(all, lim, c) ==
  { all[i] : i \in (c * lim + 1)..(IF (c + 1) * lim > Len(all) THEN Len(all)
                                    ELSE (c + 1) * lim) }

\* every request holds at most lim series, all of one slice of lim series of all
CutFirst(reql, all, lim) ==
  \A r \in 1..Len(reql) :
    /\ Len(reql[r].TimeSeries) <= lim
    /\ \E c \in 0..(Len(all) \div lim) :
         \A k \in 1..Len(reql[r].TimeSeries) :
           reql[r].TimeSeries[k] \in Slice(all, lim, c)

\* the requests uploadMetrics has issued so far
IssuedRequests == [r \in 1..Len(issued) |-> issued[r].req]

\* the view data of TestExporter_makeReq_batching: two view data of one view,
\* each with the rows of the two tag values
BatchingTestVds ==
  [d \in 1..2 |-> [View |-> [Name |-> <<97>>], Rows |-> <<Row(ValV1), Row(ValV2)>>]]

\* C16: every request issued by uploadMetrics holds at most
\* maxTimeSeriesPerUpload (200) series and every request built by
\* makeReq(vds, limit) at most limit; the series are cut into slices first and
\* each slice is split by signature, so a request holds series of one slice
\* only; and the requests of a call hold each converted series exactly once.
\* On the view data of the batching test (4 series) the limits 3, 4 and 5 give
\* 3, 2 and 2 requests.
C16_RequestsWithinLimitHoldEachSeriesOnce ==
  /\ uploadOp = "uploadMetrics" =>
       /\ CutFirst(IssuedRequests, allTimeSeries, maxTimeSeriesPerUpload)
       /\ uploadPc = "done" => HoldExactlyOnce(IssuedRequests, allTimeSeries)
  /\ uploadOp = "makeReq" /\ makeReqRet # <<>> =>
       /\ CutFirst(makeReqRet[1], ViewDataSeries(vds, 1), limit)
       /\ HoldExactlyOnce(makeReqRet[1], ViewDataSeries(vds, 1))
       /\ vds = BatchingTestVds /\ limit \in 3..5 =>
            Len(makeReqRet[1]) = (IF limit = 3 THEN 3 ELSE 2)

\* uploadMetrics has returned after it sent more than two full batches, one
\* of its requests holding maxTimeSeriesPerUpload series and a later one the
\* series of a repeated signature
C16_Witness ==
  /\ uploadOp = "uploadMetrics"
  /\ uploadPc = "done"
  /\ Len(allTimeSeries) > 2 * maxTimeSeriesPerUpload
  /\ \E r \in 1..Len(issued) :
       Len(issued[r].req.TimeSeries) = maxTimeSeriesPerUpload
  /\ \E r \in 1..Len(issued) :
       /\ r > 1
       /\ issued[r].endpoint = "createTimeSeries"
       /\ issued[r - 1].endpoint = "createTimeSeries"
       /\ Len(issued[r].req.TimeSeries) < Len(issued[r - 1].req.TimeSeries)
       /\ Len(issued[r - 1].req.TimeSeries) < maxTimeSeriesPerUpload

-----------------------------------------------------------------------------
(* Registration failures in uploadMetrics *)

\* the metric at position m of metrics is the only one of its name
OnlyOfItsName(m) ==
  \A o \in 1..Len(metrics) :
    metrics[o].Descriptor.Name = metrics[m].Descriptor.Name => o = m

\* C17: when the registration of a metric's descriptor fails during
\* uploadMetrics, no request issued in that cycle holds a series of that
\* metric, and its name is not in metricDescriptors afterwards (unless the
\* registration of another metric of that name put it there), so that the next
\* cycle tries to register it again.
C17_FailedRegistrationSendsNoSeries ==
  \A m \in regFailed :
    /\ \A r \in 1..Len(issued) : \A k \in 1..Len(issued[r].req.TimeSeries) :
         issued[r].req.TimeSeries[k].from[1] # m
    /\ OnlyOfItsName(m) => ~Created(metricDescriptors, metrics[m].Descriptor.Name)

-----------------------------------------------------------------------------
(* Series that cannot be converted *)

\* the j-th series of the m-th metric can be converted: every point has a
\* supported value and there are as many label values as label keys
Convertible(m, j) ==
  /\ \A p \in 1..Len(metrics[m].TimeSeries[j].Points) :
       metrics[m].TimeSeries[j].Points[p] \in {"int64", "float64"}
  /\ Len(metrics[m].TimeSeries[j].LabelValues) = Len(metrics[m].Descriptor.LabelKeys)

\* the series of the metrics argument, as pairs of positions
SeriesOfMetrics ==
  { <<m, j>> \in (1..Len(metrics)) \X (1..MaxSeriesFullCap) :
      j <= Len(metrics[m].TimeSeries) }

\* where the series of the issued requests come from
SentFrom ==
  UNION { { issued[r].req.TimeSeries[k].from : k \in 1..Len(issued[r].req.TimeSeries) }
          : r \in 1..Len(issued) }

\* C18: a series that cannot be converted (a point of unsupported value type,
\* or label values that differ in number from the label keys) is the only one
\* left out: of every metric that has a metric kind, exactly the convertible
\* series are converted, in their order, and once uploadMetrics has returned
\* every one of them was sent.
C18_OnlyUnconvertibleSeriesLeftOut ==
  uploadOp = "uploadMetrics" /\ uploadPc \in {"send", "done"} =>
    /\ \A s \in SeriesOfMetrics :
         (\E i \in 1..Len(allTimeSeries) : allTimeSeries[i].from = s)
           <=> /\ metrics[s[1]].Descriptor.Type # "TypeSummary"
               /\ Convertible(s[1], s[2])
    /\ \A i, k \in 1..Len(allTimeSeries) :
         i < k => \/ allTimeSeries[i].from[1] < allTimeSeries[k].from[1]
                  \/ /\ allTimeSeries[i].from[1] = allTimeSeries[k].from[1]
                     /\ allTimeSeries[i].from[2] < allTimeSeries[k].from[2]
    /\ uploadPc = "done" =>
         SentFrom = { allTimeSeries[i].from : i \in 1..Len(allTimeSeries) }

\* uploadMetrics has returned: the first metric has a series that cannot be
\* converted and one that was sent, and a series of the second metric was sent
C18_Witness ==
  /\ uploadOp = "uploadMetrics"
  /\ uploadPc = "done"
  /\ Len(metrics) = 2
  /\ \E j \in 1..Len(metrics[1].TimeSeries) : ~Convertible(1, j)
  /\ \E j \in 1..Len(metrics[1].TimeSeries) : <<1, j>> \in SentFrom
  /\ <<2, 1>> \in SentFrom

-----------------------------------------------------------------------------
(* The error uploadMetrics returns *)

\* the series whose conversion failed: those of a metric with a metric kind
\* that cannot be converted
FailedConversions ==
  { s \in SeriesOfMetrics :
      /\ metrics[s[1]].Descriptor.Type # "TypeSummary"
      /\ ~Convertible(s[1], s[2]) }

\* the create calls of this cycle that failed
FailedSends == { r \in 1..Len(issued) : issued[r].err # Nil }

\* C19: uploadMetrics returns nil only if no error occurred in any of its
\* steps, the registration of the descriptors, the conversion of every series
\* and every send; it returns the error itself when exactly one occurred and
\* one error that joins the messages when several did.
C19_NilOnlyWithoutErrors ==
  uploadOp = "uploadMetrics" /\ uploadPc = "done" =>
    LET occurred == Cardinality(regFailed) + Cardinality(FailedConversions)
                      + Cardinality(FailedSends)
    IN  /\ uploadErr[1] = Nil <=> occurred = 0
        /\ occurred = 1 => uploadErr[1] # Nil /\ uploadErr[1].kind # "joined"
        /\ occurred > 1 => uploadErr[1].kind = "joined"

-----------------------------------------------------------------------------
(* The order of the requests of uploadMetrics *)

\* the chunk of allTimeSeries, counted from 0, that the series of req are of
ChunkOf(req) ==
  CHOOSE c \in 0..(Len(allTimeSeries) \div maxTimeSeriesPerUpload) :
    req.TimeSeries[1] \in Slice(allTimeSeries, maxTimeSeriesPerUpload, c)

\* the series of chunk c of allTimeSeries, in order
ChunkSeries(c) ==
  SubSeq(allTimeSeries, c * maxTimeSeriesPerUpload + 1,
         batchEnd(c * maxTimeSeriesPerUpload, Len(allTimeSeries)))

\* the series of a chunk at duplicate level k that go to the endpoint: a
\* series is at level k if k - 1 series of the chunk that come before it have
\* its signature
SeriesAtLevel(chunk, k, endpoint) ==
  UNION { { chunk[i] : i \in { i \in 1..Len(chunk) :
                /\ Cardinality({j \in 1..(i - 1) : sigs[j] = sigs[i]}) + 1 = k
                /\ serviceMetric(chunk[i].metric.type)
                     <=> endpoint = "createServiceTimeSeries" } }
          : sigs \in {[i \in 1..Len(chunk) |-> metricSignature(chunk[i].metric)]} }

\* the series of a request
SeriesOfRequest(req) == { req.TimeSeries[k] : k \in 1..Len(req.TimeSeries) }

\* the place of the r-th issued request among the issued requests of its
\* chunk and endpoint
PlaceInChunk(r, chunks) ==
  Cardinality({q \in 1..r : /\ issued[q].endpoint = issued[r].endpoint
                            /\ chunks[q] = chunks[r]})

\* C26: within one chunk sent by uploadMetrics, the requests that the
\* deduplication makes for an endpoint are issued in increasing duplicate
\* level: the k-th of them holds the k-th occurrences of the signatures and
\* nothing else, and its call has returned, with an error or without, before
\* the next one is made.
C26_RequestsIssuedInLevelOrder ==
  uploadOp = "uploadMetrics" =>
    /\ \A chunks \in {[r \in 1..Len(issued) |-> ChunkOf(issued[r].req)]} :
         \A r \in 1..Len(issued) :
           SeriesOfRequest(issued[r].req)
             = SeriesAtLevel(ChunkSeries(chunks[r]), PlaceInChunk(r, chunks),
                             issued[r].endpoint)
    /\ \A r \in 1..Len(issued) : issued[r].err = Nil \/ issued[r].err.kind = "unavailable"

\* four series of one signature went out in four requests, one after the
\* other, the call of the first failing
C26_Witness ==
  /\ uploadOp = "uploadMetrics"
  /\ Len(issued) = 4
  /\ \A r \in 1..4 :
       /\ Len(issued[r].req.TimeSeries) = 1
       /\ issued[r].req.TimeSeries[1] = allTimeSeries[r]
       /\ issued[r].endpoint = "createTimeSeries"
  /\ \A i \in 1..4 :
       metricSignature(allTimeSeries[i].metric) = metricSignature(allTimeSeries[1].metric)
  /\ issued[1].err # Nil
  /\ issued[4].err = Nil

-----------------------------------------------------------------------------
(* Registration before conversion in uploadMetrics *)

\* the names of the metrics of the batch
NamesOfBatch == { metrics[m].Descriptor.Name : m \in 1..Len(metrics) }

\* C27 as stated: by the time series are built, one remote create call was
\* made for every name of the batch (in the first cycle, when no name is
\* cached, with descriptors not skipped and no built-in metric type)
C27_OneCreatePerNameOfBatch ==
  (uploadOp = "uploadMetrics" /\ cycle = 1 /\ uploadPc \in {"send", "done"} /\ ~ skipCMD) =>
    \A m \in 1..Len(metrics) :
      ~ builtinMetric(metrics[m].metricType) =>
        remoteCreates[metrics[m].Descriptor.Name] = 1

\* a step of uploadMetrics makes a remote create call for a name only in the
\* registration of a metric of that name, with the name not cached and every
\* earlier metric of that name in the batch failed to register; and the first
\* metric of a name that is neither cached nor built-in makes one
C27_RegistrationStep ==
  uploadOp = "uploadMetrics" =>
    /\ \A n \in ViewNames :
         remoteCreates'[n] # remoteCreates[n] =>
           /\ remoteCreates'[n] = remoteCreates[n] + 1
           /\ uploadPc = "register" /\ metricI' = metricI + 1
           /\ metrics[metricI + 1].Descriptor.Name = n
           /\ ~ skipCMD
           /\ n \notin metricDescriptors
           /\ ~ builtinMetric(metrics[metricI + 1].metricType)
           /\ \A o \in 1..metricI : metrics[o].Descriptor.Name = n => o \in regFailed
    /\ (/\ uploadPc = "register" /\ metricI' = metricI + 1
        /\ ~ skipCMD
        /\ metrics[metricI + 1].Descriptor.Name \notin metricDescriptors
        /\ ~ builtinMetric(metrics[metricI + 1].metricType))
         => remoteCreates'[metrics[metricI + 1].Descriptor.Name]
              = remoteCreates[metrics[metricI + 1].Descriptor.Name] + 1
    /\ (allTimeSeries' # allTimeSeries \/ issued' # issued) /\ uploadPc' # "register" =>
         metricI = Len(metrics)

\* no series is built or sent before the registration of every metric of the
\* batch has returned, and of the create calls for a name at most one did not
\* fail
C27_RegisteredBeforeBuilt ==
  uploadOp = "uploadMetrics" =>
    /\ (allTimeSeries # <<>> \/ pending # <<>> \/ issued # <<>>) =>
         metricI = Len(metrics)
    /\ \A n \in ViewNames : remoteCreates[n] <= remoteFailed[n] + 1
    /\ \A n \in ViewNames \ NamesOfBatch : remoteCreates[n] = 0

\* C27: in uploadMetrics the descriptor of every metric of the batch is
\* registered before any time series is built or sent; a remote create call is
\* made for a name only while it is not cached and only after every earlier
\* attempt for it failed, so once per name when none fails.
C27_RegisterThenBuild ==
  /\ [][C27_RegistrationStep]_vars
  /\ []C27_RegisteredBeforeBuilt

\* the batch holds two metrics of the name "a": the create call of the first
\* failed, the second made another, and series have been sent
C27_Witness ==
  /\ uploadOp = "uploadMetrics"
  /\ cycle = 1
  /\ Len(metrics) = 2
  /\ NamesOfBatch = {<<97>>}
  /\ regFailed = {1}
  /\ remoteCreates[<<97>>] = 2
  /\ issued # <<>>

-----------------------------------------------------------------------------
(* The first failure of uploadStats *)

\* the requests of uploadStats whose call failed
FailedStatsSends == { r \in 1..Len(issued) : issued[r].err # Nil }

\* a step of uploadStats after a failure makes no call: no remote create and
\* no createTimeSeries
C30_NoCallAfterFailure ==
  uploadOp = "uploadStats" =>
    /\ issued' # issued =>
         /\ uploadErr = <<>>
         /\ FailedStatsSends = {}
         /\ metricI = Len(vds)
         /\ uploadFailures = 0
    /\ remoteCreates' # remoteCreates =>
         /\ uploadErr = <<>>
         /\ issued = <<>>
         /\ uploadFailures = 0

\* what uploadStats returns is the error of its first failure, which is its
\* only one: of the registration of a view, with no request sent, or of the
\* last request sent, with the later ones unsent; nil if nothing failed and
\* every request was sent
C30_ReturnsFirstFailure ==
  uploadOp = "uploadStats" =>
    /\ uploadFailures <= 1
    /\ uploadPc = "done" <=> uploadErr # <<>>
    /\ uploadPc = "done" =>
         /\ uploadErr[1] = Nil <=>
               /\ uploadFailures = 0
               /\ metricI = Len(vds)
               /\ pending = <<>>
               /\ IssuedRequests = makeReq(vds, maxTimeSeriesPerUpload)
         /\ FailedStatsSends # {} =>
               /\ FailedStatsSends = {Len(issued)}
               /\ uploadErr = <<issued[Len(issued)].err>>
               /\ IssuedRequests \o [r \in 1..Len(pending) |-> pending[r].req]
                    = makeReq(vds, maxTimeSeriesPerUpload)
         /\ (uploadErr[1] # Nil /\ FailedStatsSends = {}) =>
               /\ issued = <<>>
               /\ pending = <<>>
               /\ metricI >= 1
               /\ uploadErr[1].kind \in {"createFailed", "unsupportedAggregation"}
               /\ uploadErr[1].name = vds[metricI].View.Name
               /\ ~ Created(metricDescriptors, vds[metricI].View.Name)

\* C30: uploadStats stops at its first failure and returns that error: after
\* the registration of a descriptor fails no time-series request is sent, and
\* after a time-series request fails no later request of the upload is sent.
C30_StopsAtFirstFailure ==
  /\ [][C30_NoCallAfterFailure]_vars
  /\ []C30_ReturnsFirstFailure

\* uploadStats returned the error of its first request, with a second one
\* not sent
C30_Witness ==
  /\ uploadOp = "uploadStats"
  /\ uploadPc = "done"
  /\ Len(issued) = 1
  /\ issued[1].err # Nil
  /\ uploadErr = <<issued[1].err>>
  /\ Len(pending) = 1

\* uploadStats returned the error of the registration of the second view,
\* after it registered the first, and sent nothing
C30_WitnessRegistration ==
  /\ uploadOp = "uploadStats"
  /\ uploadPc = "done"
  /\ metricI = 2
  /\ uploadErr[1].kind = "createFailed"
  /\ Cardinality(metricDescriptors) = 1
  /\ issued = <<>>

-----------------------------------------------------------------------------
(* sendReq on one request *)

\* largest id of a series in a request passed to sendReq
MaxSendId == 4
\* largest number of series in such a request
MaxSendLen == 3

\* the lists of up to MaxSendLen different series, by id
SendSeriesLists ==
  UNION { { l \in [1..n -> 1..MaxSendId] : \A i, j \in 1..n : l[i] = l[j] => i = j }
          : n \in 0..MaxSendLen }

\* what a create call returns to sendReq: nil, the errors a batcher's workers
\* meet, and two partial failures, "timeSeries[3-1]" and "timeSeries[0-3,7]"
SendErrKinds == BackendErrKinds \cup {"nil", "reversedRange", "longList"}

\* the error value of a kind that the create call to the endpoint returns
SendBackendErr(kind, endpoint) ==
  IF kind \in {"reversedRange", "longList"}
  THEN [kind |-> "api", prefix |-> PartialErrPrefix, tail |-> <<>>, endpoint |-> endpoint,
        lists |-> IF kind = "reversedRange"
                  THEN << <<[min |-> 3, max |-> 1, ranged |-> TRUE]>> >>
                  ELSE << <<[min |-> 0, max |-> 3, ranged |-> TRUE],
                            [min |-> 7, max |-> 7, ranged |-> FALSE]>> >>]
  ELSE BackendErr(kind, 1, endpoint)

InitSendReq ==
  /\ mc \in {"client", "nil"}
  /\ workload \in SendWorkloads
  /\ sendReqArg \in { NewRequest(l) : l \in SendSeriesLists }
  /\ backendErrs \in SendErrKinds \X SendErrKinds
  /\ sendReqRet = <<>>
  /\ numWorkers = 0
  /\ batchCap = 0
  /\ failures = 0
  /\ mb = [allTss |-> <<>>, allErrs |-> <<>>, droppedTimeSeries |-> 0]
  /\ reqsChan = [buf |-> <<>>, closed |-> FALSE]
  /\ respsChan = [buf |-> <<>>, closed |-> FALSE]
  /\ wg = 0
  /\ workers = <<>>
  /\ mbPc = "unused"
  /\ drainI = 0
  /\ closeErr = Nil
  /\ toSubmit = 0
  /\ submitted = 0
  /\ handed = <<>>
  /\ sent = <<>>
  /\ CombineUnused
  /\ DescUnused
  /\ ParseUnused
  /\ DistUnused
  /\ UploadUnused
  /\ CtxUnused

\* one call of sendReq(ctx, c, req)
SendReqCall ==
  /\ sendReqRet = <<>>
  /\ sendReqRet' = <<sendReq(mc, sendReqArg,
                             SendBackendErr(backendErrs[1], "createTimeSeries"),
                             SendBackendErr(backendErrs[2], "createServiceTimeSeries"))>>
  /\ UNCHANGED <<sendReqArg, backendErrs, nonSendVars>>

NextSendReq == SendReqCall

SpecSendReq == InitSendReq /\ [][NextSendReq]_vars

\* the series of the request whose metric type starts with "kubernetes.io/",
\* or the others, as positions in the request
PositionsOfKind(service) ==
  { i \in 1..Len(sendReqArg.TimeSeries) :
      HasPrefix(SeriesAt(sendReqArg.TimeSeries[i]).metric.type, KubernetesPrefix)
        <=> service }

\* the calls sendReq made to the endpoint
CallsOf(endpoint) ==
  SelectSeq(sendReqRet[1].calls, LAMBDA call : call.endpoint = endpoint)

\* the endpoint got one call if the request has series of the kind, none
\* otherwise; the call's request has the name of the request and the series of
\* the kind, each once and in the order of the request
RoutedTo(endpoint, service) ==
  /\ Len(CallsOf(endpoint)) = (IF PositionsOfKind(service) = {} THEN 0 ELSE 1)
  /\ \A c \in 1..Len(CallsOf(endpoint)) :
       LET sub == CallsOf(endpoint)[c].req
       IN  /\ sub.Name = sendReqArg.Name
           /\ Len(sub.TimeSeries) = Cardinality(PositionsOfKind(service))
           /\ \A k \in 1..Len(sub.TimeSeries) :
                \E i \in PositionsOfKind(service) :
                  /\ sendReqArg.TimeSeries[i] = sub.TimeSeries[k]
                  /\ Cardinality({ j \in PositionsOfKind(service) : j < i }) = k - 1

\* C20: sendReq with a client puts every series of the request into exactly
\* one of two sub-requests, the service one if its metric type starts with
\* "kubernetes.io/" and the custom one otherwise, keeping the order of the
\* series and the name of the request; it makes one call to createTimeSeries
\* if the custom sub-request has series and then one to
\* createServiceTimeSeries if the service one has, whatever the first call
\* returned, and it returns one error for each call that failed. Without a
\* client, as in unit tests, it makes no call.
C20_SeriesRoutedByPrefix ==
  sendReqRet # <<>> =>
    IF mc = "nil" THEN sendReqRet[1].calls = <<>>
    ELSE /\ RoutedTo("createTimeSeries", FALSE)
         /\ RoutedTo("createServiceTimeSeries", TRUE)
         /\ Len(sendReqRet[1].calls)
              = Len(CallsOf("createTimeSeries")) + Len(CallsOf("createServiceTimeSeries"))
         /\ Len(sendReqRet[1].calls) = 2 =>
              sendReqRet[1].calls[1].endpoint = "createTimeSeries"
         /\ Len(sendReqRet[1].errors)
              = (IF PositionsOfKind(FALSE) # {} /\ backendErrs[1] # "nil" THEN 1 ELSE 0)
                + (IF PositionsOfKind(TRUE) # {} /\ backendErrs[2] # "nil" THEN 1 ELSE 0)

\* sendReq was called on a request of a service series between two others, one
\* of them with the service prefix inside its type; the call of
\* createTimeSeries failed and createServiceTimeSeries was called all the same
C20_Witness ==
  /\ sendReqRet # <<>>
  /\ mc = "client"
  /\ workload = "prefixes"
  /\ sendReqArg.TimeSeries = <<4, 2, 1>>
  /\ backendErrs = <<"unavailable", "nil">>
  /\ Len(sendReqRet[1].calls) = 2
  /\ sendReqRet[1].calls[1].req.TimeSeries = <<4, 1>>
  /\ sendReqRet[1].calls[2].req.TimeSeries = <<2>>
  /\ Len(sendReqRet[1].errors) = 1

\* C28 as stated: for every request and every error of the backend, the
\* dropped count sendReq reports is at least 0 and at most the number of
\* series of the request.
C28_DroppedWithinRequest ==
  sendReqRet # <<>> =>
    /\ sendReqRet[1].dropped >= 0
    /\ sendReqRet[1].dropped <= Len(sendReqArg.TimeSeries)

-----------------------------------------------------------------------------
(* The contexts of the outbound calls *)

\* largest number of calls of one kind that a goroutine makes in an export
MaxCalls == 2
\* largest duration of a timeout, in some unit
MaxTimeout == 2

\* context.Background(): the empty chain of contexts, never done
Background == <<>>
\* a nil context.Context
NilCtx == <<[site |-> "nil", n |-> 0, timeout |-> 0]>>
\* the context the caller made: a root that can be cancelled or expire
CallerCtx == <<[site |-> "caller", n |-> 0, timeout |-> 0]>>

\* newContextWithTimeout(ctx, timeout), called at site as the n-th derivation:
\* a context derived from ctx (from the background for a nil ctx), written as
\* the chain of contexts from the root down to itself
newContextWithTimeout(ctx, timeout, site, n) ==
  Append(IF ctx = NilCtx THEN Background ELSE ctx,
         [site |-> site, n |-> n, timeout |-> timeout])

\* ctx.Done() is closed: the context or one it derives from is in done
Done(ctx, done) == \E k \in 1..Len(ctx) : SubSeq(ctx, 1, k) \in done

\* newWorker: the timeout field of the worker it returns, which the struct
\* literal leaves at its zero value
workerTimeout(timeout) == 0

\* the duration an outbound call hands to newContextWithTimeout for the context
\* it runs under: sendReqWithTimeout hands the worker's timeout field, the
\* other calls Options.Timeout
callTimeout(path, timeout) ==
  IF path = "worker" THEN workerTimeout(timeout) ELSE timeout

\* the context of an outbound call that always derives from the background
callContextFromBackground(path, endpoint, ectx, timeout, n) ==
  newContextWithTimeout(Background, timeout, endpoint, n)

\* the context an outbound call is made under: sendReqWithTimeout derives one
\* from the worker's ctx with the worker's timeout, createMetricDescriptor
\* derives one from the ctx of the export with Options.Timeout, and the create
\* calls of uploadStats and uploadMetrics get the ctx of the export itself
callContext(path, endpoint, ectx, timeout, n) ==
  IF path = "worker"
  THEN newContextWithTimeout(ectx, callTimeout(path, timeout), "sendReqWithTimeout", n)
  ELSE IF endpoint = "createMetricDescriptor"
  THEN newContextWithTimeout(ectx, callTimeout(path, timeout), "createMetricDescriptor", n)
  ELSE ectx

\* no call in flight
NoCall == [endpoint |-> "none", ctx |-> Background, timeout |-> 0]

\* the lists of up to MaxCalls calls to the endpoints
CallLists(endpoints) == UNION { [1..n -> endpoints] : n \in 0..MaxCalls }

\* the calls of an export: uploadStats and uploadMetrics create descriptors and
\* then time series in one goroutine, the workers of a batcher send requests
\* in two
CallPlans(path) ==
  IF path = "worker"
  THEN [1..2 -> CallLists({"createTimeSeries", "createServiceTimeSeries"})]
  ELSE { <<cmd \o cts, <<>> >> :
           cmd \in CallLists({"createMetricDescriptor"}),
           cts \in CallLists(IF path = "uploadStats" THEN {"createTimeSeries"}
                             ELSE {"createTimeSeries", "createServiceTimeSeries"}) }

InitCtx ==
  /\ exportPath \in {"uploadStats", "uploadMetrics", "worker"}
  /\ callerCtx \in {CallerCtx, NilCtx}
  /\ IF exportPath = "worker"
     THEN optTimeout = 0 /\ mbTimeout \in 0..MaxTimeout
     ELSE optTimeout \in {0, MaxTimeout} /\ mbTimeout = 0
  /\ callPlan \in CallPlans(exportPath)
  /\ exportPc = "start"
  /\ exportCtx = Background
  /\ inFlight = <<NoCall, NoCall>>
  /\ ctxDone = {}
  /\ ctxCount = 0
  /\ observed = <<>>
  /\ CombineUnused
  /\ BatcherUnused
  /\ DescUnused
  /\ ParseUnused
  /\ DistUnused
  /\ UploadUnused
  /\ SendUnused

ctxInputs == <<exportPath, callerCtx, optTimeout, mbTimeout>>

\* the export begins: uploadStats and uploadMetrics derive their ctx from
\* Options.Context with Options.Timeout; newMetricsBatcher hands its ctx to
\* every worker as it is
ExportBegin ==
  /\ exportPc = "start"
  /\ exportPc' = "run"
  /\ IF exportPath = "worker"
     THEN exportCtx' = callerCtx /\ ctxCount' = ctxCount
     ELSE /\ exportCtx' = newContextWithTimeout(callerCtx, optTimeout, exportPath,
                                                ctxCount + 1)
          /\ ctxCount' = ctxCount + 1
  /\ UNCHANGED <<ctxInputs, callPlan, inFlight, ctxDone, observed, nonCtxVars>>

\* goroutine g makes its next outbound call
CallBegin(g) ==
  /\ exportPc = "run"
  /\ callPlan[g] # <<>>
  /\ inFlight[g] = NoCall
  /\ \E c \in {callContext(exportPath, Head(callPlan[g]), exportCtx,
                          IF exportPath = "worker" THEN mbTimeout ELSE optTimeout,
                          ctxCount + 1)} :
       /\ inFlight' = [inFlight EXCEPT ![g] = [endpoint |-> Head(callPlan[g]), ctx |-> c,
                                          timeout |-> callTimeout(exportPath,
                                            IF exportPath = "worker" THEN mbTimeout
                                            ELSE optTimeout)]]
       /\ ctxCount' = IF c = exportCtx THEN ctxCount ELSE ctxCount + 1
  /\ callPlan' = [callPlan EXCEPT ![g] = Tail(@)]
  /\ UNCHANGED <<ctxInputs, exportPc, exportCtx, ctxDone, observed, nonCtxVars>>

\* the outbound call of goroutine g returns; a context derived for the call is
\* cancelled by the deferred cancel()
CallReturn(g) ==
  /\ inFlight[g] # NoCall
  /\ observed' = Append(observed, [endpoint |-> inFlight[g].endpoint,
                                   ctx |-> inFlight[g].ctx,
                                   timeout |-> inFlight[g].timeout,
                                   done |-> Done(inFlight[g].ctx, ctxDone)])
  /\ ctxDone' = IF inFlight[g].ctx = exportCtx THEN ctxDone
                ELSE ctxDone \cup {inFlight[g].ctx}
  /\ inFlight' = [inFlight EXCEPT ![g] = NoCall]
  /\ UNCHANGED <<ctxInputs, exportPc, exportCtx, callPlan, ctxCount, nonCtxVars>>

\* the export ends; uploadStats and uploadMetrics cancel their ctx
ExportEnd ==
  /\ exportPc = "run"
  /\ \A g \in 1..2 : callPlan[g] = <<>> /\ inFlight[g] = NoCall
  /\ exportPc' = "done"
  /\ ctxDone' = IF exportPath = "worker" THEN ctxDone ELSE ctxDone \cup {exportCtx}
  /\ UNCHANGED <<ctxInputs, exportCtx, callPlan, inFlight, ctxCount, observed, nonCtxVars>>

\* the caller cancels the context it supplied, or its deadline passes
CancelCaller ==
  /\ callerCtx = CallerCtx
  /\ exportPc # "done"
  /\ callerCtx \notin ctxDone
  /\ ctxDone' = ctxDone \cup {callerCtx}
  /\ UNCHANGED <<ctxInputs, exportPc, exportCtx, callPlan, inFlight, ctxCount, observed,
                 nonCtxVars>>

\* the deadline of a derived context passes while it is in use
Expire ==
  /\ exportPc = "run"
  /\ \E c \in ({exportCtx} \cup {inFlight[g].ctx : g \in 1..2})
               \ ({Background, CallerCtx} \cup ctxDone) :
       ctxDone' = ctxDone \cup {c}
  /\ UNCHANGED <<ctxInputs, exportPc, exportCtx, callPlan, inFlight, ctxCount, observed,
                 nonCtxVars>>

NextCtx ==
  \/ ExportBegin
  \/ \E g \in 1..2 : CallBegin(g)
  \/ \E g \in 1..2 : CallReturn(g)
  \/ ExportEnd
  \/ CancelCaller
  \/ Expire

SpecCtx == InitCtx /\ [][NextCtx]_vars

\* C21: when the context the caller supplied is cancelled or expires, every
\* outbound call in flight, a descriptor creation or a time-series creation,
\* runs under a context that is done, because that context is the caller's or
\* derives from it.
C21_CallsObserveCallerCancellation ==
  callerCtx = CallerCtx /\ CallerCtx \in ctxDone =>
    \A g \in 1..2 :
      inFlight[g] # NoCall =>
        /\ Done(inFlight[g].ctx, ctxDone)
        /\ SubSeq(inFlight[g].ctx, 1, 1) = CallerCtx

\* the caller's context is done while a descriptor creation is in flight
\* under a context of its own that is neither cancelled nor expired, and so is
\* the ctx of the export
C21_Witness ==
  /\ CallerCtx \in ctxDone
  /\ \E g \in 1..2 :
       /\ inFlight[g].endpoint = "createMetricDescriptor"
       /\ Len(inFlight[g].ctx) = 3
       /\ inFlight[g].ctx \notin ctxDone
       /\ exportCtx \notin ctxDone

\* C24: each worker sends every request under a timeout equal to the duration
\* passed to newMetricsBatcher: the duration sendReqWithTimeout hands to
\* newContextWithTimeout is that duration.
C24_WorkerSendsUnderBatcherTimeout ==
  exportPath = "worker" =>
    \A g \in 1..2 : inFlight[g] # NoCall => inFlight[g].timeout = mbTimeout

====
